---- MODULE Spec2Model ----
(***************************************************************************)
(* A model of decision-mcp-server: the credential negotiator               *)
(* (Credentials.py), the ruleset catalog resolver and the tool schema      *)
(* builder (DecisionServerManager.py, DecisionServiceDescription.py).      *)
(*                                                                         *)
(* Python strings whose characters matter (version strings, tool names)    *)
(* are sequences of one-character strings, the other strings met in a      *)
(* catalog are Text(...); Python's None is NoneV.                          *)
(***************************************************************************)
EXTENDS Integers, Sequences, FiniteSets, TLC

VARIABLES
    ctorArgs,        \* arguments of the Credentials(...) call, NoArgs before it
    cred,            \* the Credentials object, NoObject if none was constructed
    ctorError,       \* "none", or what Credentials.__init__ raised
    authCalls,       \* number of get_auth calls made on cred
    authResult,      \* outcome of the last get_auth call
    authRequests,    \* token requests sent by the last get_auth call
    authResponse,    \* the token endpoint's answer to the last get_auth call
    tokenPosts,      \* token requests sent by all get_auth calls
    data,            \* the catalog listing handed to the resolver
    selected,        \* result of extract_highest_version_rulesets
    extractDone,     \* extract_highest_version_rulesets has returned
    toolInput,       \* argument of the last generate_tools_format call
    toolResult,      \* outcome of the last generate_tools_format call
    openapiResponse, \* what the runtime answers to an OpenAPI request
    schemaRuleset,   \* argument of the last get_input_schema call
    schemaResult,    \* outcome of the last get_input_schema call
    heap,            \* the objects of the structure handed to to_plain_dict
    plainResult,     \* outcome of the last to_plain_dict call
    manager,         \* DecisionMCPServer.manager, None until one is installed
    repository,      \* DecisionMCPServer.repository: tool name -> ruleset path
    trace_enable,    \* DecisionMCPServer.trace_enable
    trace_index,     \* DiskTraceStorage.trace_index, in insertion order
    trace_files,     \* the trace files in the storage directory
    now,             \* the clock, in half seconds
    runtimePosts,    \* decision requests sent to the runtime
    callCount,       \* call_tool and list_tools calls made
    callResult,      \* outcome of the last call_tool call
    listResult,      \* outcome of the last list_tools call
    storeAdds,       \* DiskTraceStorage.add calls made on a storage used by itself
    sessCred,        \* the Credentials object a DecisionServerManager is given
    mgrHeaders,      \* DecisionServerManager.headers, once __init__ has set it
    tempFiles,       \* the decrypted mTLS key files on disk
    tempCreated,     \* temporary files created so far
    sessClock,       \* seconds since the process started
    sessTicks,       \* steps the clock has made
    sessOps,         \* manager requests and cleanup calls made
    sessRequest,     \* the last manager operation and the request it sent
    sessLog          \* the log records the Credentials logger got during it

credVars == <<ctorArgs, cred, ctorError, authCalls, authResult, authRequests,
             authResponse, tokenPosts>>
catVars  == <<data, selected, extractDone>>
toolVars == <<toolInput, toolResult, openapiResponse>>
schemaVars == <<schemaRuleset, schemaResult>>
resolveVars == <<heap, plainResult>>
serverVars == <<manager, repository, trace_enable, trace_index, trace_files, now,
               runtimePosts, callCount, callResult, listResult>>
storeVars == <<storeAdds>>
sessVars == <<sessCred, mgrHeaders, tempFiles, tempCreated, sessClock, sessTicks, sessOps,
             sessRequest, sessLog>>
vars     == <<credVars, catVars, toolVars, schemaVars, resolveVars, serverVars, storeVars,
             sessVars>>

-----------------------------------------------------------------------------
(* Python values *)

NoneV == "<None>"

\* bool(v) of a str-or-None value
Truthy(v) == v # NoneV /\ v # ""

NoArgs   == [called |-> FALSE]
NoObject == [exists |-> FALSE]
NoResult == [kind |-> "not_called", exc |-> "", headers |-> <<>>]
NoResponse == [received |-> FALSE]

Raise(e)    == [kind |-> "raise", exc |-> e, headers |-> <<>>]
Return(hs)  == [kind |-> "headers", exc |-> "", headers |-> hs]

-----------------------------------------------------------------------------
(* Bounds *)

\* get_auth calls made on one Credentials object
MaxAuthCalls == 2

-----------------------------------------------------------------------------
(* Credentials.__init__ *)

\* the constructor arguments the model draws from
UsernameValues == {NoneV, "", "user"}
OptionalValue(v) == {NoneV, v}

CtorArgSpace ==
    [ called             : {TRUE},
      odm_url_valid      : BOOLEAN,
      username           : UsernameValues,
      password           : OptionalValue("pass"),
      zenapikey          : OptionalValue("key"),
      client_id          : OptionalValue("cid"),
      client_secret      : OptionalValue("secret"),
      token_url          : OptionalValue("https://op/token"),
      pkjwt_cert_path    : OptionalValue("pkjwt.crt"),
      pkjwt_key_path     : OptionalValue("pkjwt.key"),
      pkjwt_key_password : OptionalValue("pw"),
      mtls_cert_path     : OptionalValue("mtls.crt"),
      mtls_key_path      : OptionalValue("mtls.key"),
      mtls_key_password  : OptionalValue("pw") ]

\* what reading (and decrypting) a private key file can end in
KeyFileStates == {"readable", "missing", "undecryptable"}

\* mutant: only a key without a certificate is rejected
HalfPairKeyOnly(key_path, cert_path) ==
    Truthy(key_path) /\ ~Truthy(cert_path)

\* the test of lines 127-128 and 137-138: exactly one of the pair is given
HalfPair(key_path, cert_path) ==
    \/ (Truthy(key_path) /\ ~Truthy(cert_path))
    \/ (~Truthy(key_path) /\ Truthy(cert_path))

\* get_unencrypted_key_data: "ok" or the ValueError it raises
KeyDataOutcome(key_password, file) ==
    IF file = "missing" THEN "ValueError"
    ELSE IF key_password = NoneV THEN "ok"
    ELSE IF file = "undecryptable" THEN "ValueError"
    ELSE "ok"

\* the error Credentials.__init__ ends in, "none" when it returns
CtorOutcome(a, pkjwtFile, mtlsFile) ==
    IF ~a.odm_url_valid THEN "ValueError: not a valid URL"
    ELSE IF (Truthy(a.pkjwt_key_path) \/ Truthy(a.pkjwt_cert_path))
            /\ HalfPair(a.pkjwt_key_path, a.pkjwt_cert_path)
        THEN "ValueError: pkjwt pair"
    ELSE IF (Truthy(a.pkjwt_key_path) \/ Truthy(a.pkjwt_cert_path))
            /\ KeyDataOutcome(a.pkjwt_key_password, pkjwtFile) # "ok"
        THEN "ValueError: pkjwt key"
    ELSE IF (Truthy(a.mtls_key_path) \/ Truthy(a.mtls_cert_path))
            /\ HalfPair(a.mtls_key_path, a.mtls_cert_path)
        THEN "ValueError: mtls pair"
    ELSE IF (Truthy(a.mtls_key_path) \/ Truthy(a.mtls_cert_path))
            /\ KeyDataOutcome(a.mtls_key_password, mtlsFile) # "ok"
        THEN "ValueError: mtls key"
    ELSE "none"

\* the fields of the object __init__ leaves behind (lines 104-143): the pair
\* fields stay None unless the pair's block ran
CtorObject(a) ==
    LET pk == Truthy(a.pkjwt_key_path) \/ Truthy(a.pkjwt_cert_path)
        mt == Truthy(a.mtls_key_path) \/ Truthy(a.mtls_cert_path)
    IN  [ exists             |-> TRUE,
          username           |-> a.username,
          password           |-> a.password,
          zenapikey          |-> a.zenapikey,
          client_id          |-> a.client_id,
          client_secret      |-> a.client_secret,
          token_url          |-> a.token_url,
          pkjwt_cert_path    |-> IF pk THEN a.pkjwt_cert_path ELSE NoneV,
          pkjwt_key_path     |-> IF pk THEN a.pkjwt_key_path ELSE NoneV,
          pkjwt_key_password |-> IF pk THEN a.pkjwt_key_password ELSE NoneV,
          mtls_cert_path     |-> IF mt THEN a.mtls_cert_path ELSE NoneV,
          mtls_key_path      |-> IF mt THEN a.mtls_key_path ELSE NoneV,
          mtls_key_password  |-> IF mt THEN a.mtls_key_password ELSE NoneV ]

Construct ==
    /\ ~ctorArgs.called
    /\ \E a \in CtorArgSpace, pkjwtFile \in KeyFileStates, mtlsFile \in KeyFileStates :
          LET e == CtorOutcome(a, pkjwtFile, mtlsFile) IN
          /\ ctorArgs' = a
          /\ ctorError' = e
          /\ cred' = IF e = "none" THEN CtorObject(a) ELSE NoObject
    /\ UNCHANGED <<authCalls, authResult, authRequests, authResponse, tokenPosts,
                   catVars, toolVars, schemaVars, resolveVars, serverVars, storeVars, sessVars>>

-----------------------------------------------------------------------------
(* Credentials.get_auth *)

BaseHeaders ==
    [h \in {"Content-Type", "accept"} |-> <<"application/json; charset=UTF-8">>]

\* base headers plus 'Authorization': '<scheme> <credentials>'
WithAuthorization(value) ==
    [h \in {"Authorization", "Content-Type", "accept"} |->
        IF h = "Authorization" THEN value ELSE BaseHeaders[h]]

\* what the token endpoint can answer
TokenStatuses == {200, 201, 302, 401, 500}
TokenBodies   == {"not_json", "object_with_access_token",
                  "object_without_access_token", "json_array"}
AccessTokens  == {"tokA", "tokB"}

\* the environment of one get_auth call
AuthEnvSpace ==
    [ cert_ok      : BOOLEAN,      \* certificate readable, JWT signed
      transport_ok : BOOLEAN,      \* the POST got an answer
      status       : TokenStatuses,
      body         : TokenBodies,
      token        : AccessTokens ]

\* mutant: the OpenID branch is entered only with a client secret
AuthBranchSecretRequired(c) ==
    IF Truthy(c.zenapikey) THEN "zenapikey"
    ELSE IF Truthy(c.client_id) /\ Truthy(c.client_secret) THEN "openid"
    ELSE IF Truthy(c.username) /\ Truthy(c.password) THEN "basic"
    ELSE "none"

\* the if/elif chain of get_auth (lines 146, 158, 265, 273)
AuthBranch(c) ==
    IF Truthy(c.zenapikey) THEN "zenapikey"
    ELSE IF Truthy(c.client_id) \/ Truthy(c.client_secret) THEN "openid"
    ELSE IF Truthy(c.username) /\ Truthy(c.password) THEN "basic"
    ELSE "none"

\* mutant: the API key header is built without looking at the username
ZenApiKeyAuthNoCheck(c) ==
    Return(WithAuthorization(<<"ZenApiKey", c.username, c.zenapikey>>))

\* lines 147-157
ZenApiKeyAuth(c) ==
    IF ~Truthy(c.username)
    THEN Raise("ValueError: Username must be provided when using zenapikey.")
    ELSE Return(WithAuthorization(<<"ZenApiKey", c.username, c.zenapikey>>))

\* lines 266-272
BasicAuth(c) ==
    Return(WithAuthorization(<<"Basic", c.username, c.password>>))

\* line 163: which client-credentials request is built
OpenIdPath(c) ==
    IF Truthy(c.pkjwt_cert_path) THEN "pkjwt" ELSE "client_secret"

\* the POST of lines 235/237 (signed assertion, no auth) and of lines
\* 254/256 (HTTP Basic auth with client id and secret)
TokenRequest(c, path) ==
    IF path = "pkjwt"
    THEN [client_auth |-> "none",  client_assertion |-> TRUE,  client_id |-> c.client_id]
    ELSE [client_auth |-> "basic", client_assertion |-> FALSE, client_id |-> c.client_id]

\* requests.Response.raise_for_status (line 257): raises on 4xx and 5xx
StatusRaises(status) == 400 <= status /\ status < 600

\* mutant: the token is read with .get(), so a missing field is not an error
TokenResponseLenient(env) ==
    IF StatusRaises(env.status) THEN Raise("HTTPError")
    ELSE IF env.body = "not_json" THEN Raise("JSONDecodeError")
    ELSE IF env.body = "json_array" THEN Raise("TypeError")
    ELSE Return(WithAuthorization(<<"Bearer", env.token>>))

\* lines 257-264
TokenResponse(env) ==
    IF StatusRaises(env.status) THEN Raise("HTTPError")
    ELSE IF env.body = "not_json" THEN Raise("JSONDecodeError")
    ELSE IF env.body = "object_without_access_token" THEN Raise("KeyError")
    ELSE IF env.body = "json_array" THEN Raise("TypeError")
    ELSE Return(WithAuthorization(<<"Bearer", env.token>>))

\* mutant: a token request that gets no answer is sent a second time
OpenIdAuthRetrying(c, env) ==
    IF ~Truthy(c.client_id) \/ ~Truthy(c.token_url)
    THEN [result |-> Raise("ValueError: client_id and token_url required"), sent |-> <<>>]
    ELSE IF OpenIdPath(c) = "pkjwt"
    THEN IF ~env.cert_ok
         THEN [result |-> Raise("ValueError: Error creating or sending JWT token"),
               sent |-> <<>>]
         ELSE IF ~env.transport_ok
         THEN [result |-> Raise("ValueError: Error creating or sending JWT token"),
               sent |-> <<TokenRequest(c, "pkjwt"), TokenRequest(c, "pkjwt")>>]
         ELSE [result |-> TokenResponse(env), sent |-> <<TokenRequest(c, "pkjwt")>>]
    ELSE IF ~Truthy(c.client_secret)
    THEN [result |-> Raise("ValueError: client_secret or pkjwt_key_path required"),
          sent |-> <<>>]
    ELSE IF ~env.transport_ok
    THEN [result |-> Raise("ConnectionError"),
          sent |-> <<TokenRequest(c, "client_secret"), TokenRequest(c, "client_secret")>>]
    ELSE [result |-> TokenResponse(env), sent |-> <<TokenRequest(c, "client_secret")>>]

\* lines 158-264: the outcome and the token requests sent
OpenIdAuth(c, env) ==
    IF ~Truthy(c.client_id) \/ ~Truthy(c.token_url)
    THEN [result |-> Raise("ValueError: client_id and token_url required"), sent |-> <<>>]
    ELSE IF OpenIdPath(c) = "pkjwt"
    THEN IF ~env.cert_ok
         THEN [result |-> Raise("ValueError: Error creating or sending JWT token"),
               sent |-> <<>>]
         ELSE IF ~env.transport_ok
         THEN [result |-> Raise("ValueError: Error creating or sending JWT token"),
               sent |-> <<TokenRequest(c, "pkjwt")>>]
         ELSE [result |-> TokenResponse(env), sent |-> <<TokenRequest(c, "pkjwt")>>]
    ELSE IF ~Truthy(c.client_secret)
    THEN [result |-> Raise("ValueError: client_secret or pkjwt_key_path required"),
          sent |-> <<>>]
    ELSE IF ~env.transport_ok
    THEN [result |-> Raise("ConnectionError"), sent |-> <<TokenRequest(c, "client_secret")>>]
    ELSE [result |-> TokenResponse(env), sent |-> <<TokenRequest(c, "client_secret")>>]

\* Credentials.get_auth
get_auth(c, env) ==
    LET b == AuthBranch(c) IN
    IF b = "zenapikey" THEN [result |-> ZenApiKeyAuth(c), sent |-> <<>>]
    ELSE IF b = "openid" THEN OpenIdAuth(c, env)
    ELSE IF b = "basic" THEN [result |-> BasicAuth(c), sent |-> <<>>]
    ELSE [result |-> Return(BaseHeaders), sent |-> <<>>]

GetAuth ==
    /\ cred.exists
    /\ authCalls < MaxAuthCalls
    /\ \E env \in AuthEnvSpace :
          LET r == get_auth(cred, env) IN
          /\ authResult' = r.result
          /\ authRequests' = r.sent
          /\ authResponse' =
                IF r.sent # <<>> /\ env.transport_ok
                THEN [received |-> TRUE, status |-> env.status, body |-> env.body]
                ELSE NoResponse
          /\ tokenPosts' = tokenPosts + Len(r.sent)
    /\ authCalls' = authCalls + 1
    /\ UNCHANGED <<ctorArgs, cred, ctorError, catVars, toolVars, schemaVars, resolveVars, serverVars, storeVars, sessVars>>

-----------------------------------------------------------------------------
(* Specification of the credential negotiator *)

CredInit ==
    /\ ctorArgs = NoArgs
    /\ cred = NoObject
    /\ ctorError = "none"
    /\ authCalls = 0
    /\ authResult = NoResult
    /\ authRequests = <<>>
    /\ authResponse = NoResponse
    /\ tokenPosts = 0

CatIdle ==
    /\ data = <<>>
    /\ selected = <<>>
    /\ extractDone = FALSE

ToolIdle ==
    /\ toolInput = [is_none |-> TRUE, entries |-> <<>>]
    /\ toolResult = [kind |-> "not_called", exc |-> "", tools |-> <<>>]
    /\ openapiResponse = [kind |-> "none", status |-> 0, body |-> [json |-> FALSE]]

SchemaIdle ==
    /\ schemaRuleset = [id |-> NoneV]
    /\ schemaResult = [kind |-> "not_called"]

ResolveIdle ==
    /\ heap = <<>>
    /\ plainResult = [kind |-> "not_called"]

ServerIdle ==
    /\ manager = [exists |-> FALSE]
    /\ repository = <<>>
    /\ trace_enable = FALSE
    /\ trace_index = <<>>
    /\ trace_files = {}
    /\ now = 0
    /\ runtimePosts = 0
    /\ callCount = 0
    /\ callResult = [kind |-> "not_called"]
    /\ listResult = [kind |-> "not_called"]

StoreIdle == storeAdds = 0

SessIdle ==
    /\ sessCred = NoObject
    /\ mgrHeaders = [set |-> FALSE]
    /\ tempFiles = {}
    /\ tempCreated = 0
    /\ sessClock = 0
    /\ sessTicks = 0
    /\ sessOps = 0
    /\ sessRequest = [op |-> "none"]
    /\ sessLog = <<>>

\* a process that only negotiates credentials
CredStart ==
    CredInit /\ CatIdle /\ ToolIdle /\ SchemaIdle /\ ResolveIdle /\ ServerIdle /\ StoreIdle /\ SessIdle

SpecCred ==
    /\ CredStart
    /\ [][Construct \/ GetAuth]_vars

-----------------------------------------------------------------------------
(* Properties of the credential negotiator *)

\* the scheme of the Authorization header of a header mapping, "absent" if none
HeaderScheme(hs) ==
    IF "Authorization" \in DOMAIN hs THEN hs["Authorization"][1] ELSE "absent"

AuthCalled == cred.exists /\ authCalls > 0

Returned == authResult.kind = "headers"

\* the request a token POST was: client-secret (HTTP Basic) or signed assertion
RequestPath(req) ==
    IF req.client_auth = "basic" THEN "client_secret" ELSE "pkjwt"

ApiKeyPopulated(c) == Truthy(c.zenapikey)
SecretPopulated(c) == Truthy(c.client_id) /\ Truthy(c.client_secret)
PkjwtPopulated(c)  == Truthy(c.client_id) /\ Truthy(c.pkjwt_cert_path)
                         /\ Truthy(c.pkjwt_key_path)
MtlsPopulated(c)   == Truthy(c.mtls_cert_path) /\ Truthy(c.mtls_key_path)
BasicPopulated(c)  == Truthy(c.username) /\ Truthy(c.password)

\* the scheme the stated precedence order picks
ClaimedScheme(c) ==
    IF ApiKeyPopulated(c) THEN "apikey"
    ELSE IF SecretPopulated(c) THEN "client_secret"
    ELSE IF PkjwtPopulated(c) THEN "pkjwt"
    ELSE IF MtlsPopulated(c) /\ ~BasicPopulated(c) THEN "mtls"
    ELSE IF BasicPopulated(c) THEN "basic"
    ELSE "none"

ClaimedHeaderScheme(c) ==
    CASE ClaimedScheme(c) = "apikey" -> "ZenApiKey"
      [] ClaimedScheme(c) \in {"client_secret", "pkjwt"} -> "Bearer"
      [] ClaimedScheme(c) = "basic" -> "Basic"
      [] OTHER -> "absent"

\* C1 (as stated): whenever get_auth sends a token request or returns
\* headers, it does so for the highest-precedence populated scheme in the
\* order API key > client secret > private-key JWT > mTLS-only > basic > none.
C1_PrecedenceAsClaimed ==
    AuthCalled =>
        /\ \A i \in 1..Len(authRequests) :
              RequestPath(authRequests[i]) = ClaimedScheme(cred)
        /\ Returned => HeaderScheme(authResult.headers) = ClaimedHeaderScheme(cred)

\* a profile with client id, client secret and a PKJWT pair has called get_auth
\* and a token request went out
C1_Witness ==
    /\ AuthCalled
    /\ SecretPopulated(cred) /\ PkjwtPopulated(cred) /\ ~ApiKeyPopulated(cred)
    /\ authRequests # <<>>

\* profiles with the fields of exactly one header-bearing scheme
ApiKeyOnly(c) ==
    /\ Truthy(c.zenapikey) /\ Truthy(c.username)
    /\ ~Truthy(c.password) /\ ~Truthy(c.client_id) /\ ~Truthy(c.client_secret)
    /\ ~Truthy(c.pkjwt_cert_path)
BasicOnly(c) ==
    /\ Truthy(c.username) /\ Truthy(c.password)
    /\ ~Truthy(c.zenapikey) /\ ~Truthy(c.client_id) /\ ~Truthy(c.client_secret)
    /\ ~Truthy(c.pkjwt_cert_path)
OAuthOnly(c) ==
    /\ Truthy(c.client_id) /\ Truthy(c.token_url)
    /\ Truthy(c.client_secret) # Truthy(c.pkjwt_cert_path)
    /\ ~Truthy(c.zenapikey) /\ ~Truthy(c.username) /\ ~Truthy(c.password)

\* C2: for a valid profile that configures a single scheme, the headers
\* get_auth returns hold one Authorization value of that scheme (ZenApiKey for
\* an API key, Basic for username and password, Bearer for OAuth) and never
\* one of another scheme; the API-key and basic profiles always get headers.
C2_SingleSchemeHeader ==
    AuthCalled =>
        /\ ApiKeyOnly(cred) =>
              Returned /\ HeaderScheme(authResult.headers) = "ZenApiKey"
        /\ BasicOnly(cred) =>
              Returned /\ HeaderScheme(authResult.headers) = "Basic"
        /\ OAuthOnly(cred) =>
              (Returned => HeaderScheme(authResult.headers) = "Bearer")

C2_Witness ==
    /\ AuthCalled /\ OAuthOnly(cred) /\ Truthy(cred.pkjwt_cert_path)
    /\ Returned /\ HeaderScheme(authResult.headers) = "Bearer"

\* C3: with an API key and no username get_auth raises a configuration error
\* and returns no headers, whatever the other credential fields hold.
C3_ApiKeyNeedsUsername ==
    (AuthCalled /\ Truthy(cred.zenapikey) /\ ~Truthy(cred.username)) =>
        /\ authResult.kind = "raise"
        /\ authResult.exc = "ValueError: Username must be provided when using zenapikey."
        /\ authResult.headers = <<>>
        /\ authRequests = <<>>

C3_Witness ==
    /\ AuthCalled /\ Truthy(cred.zenapikey) /\ ~Truthy(cred.username)
    /\ Truthy(cred.password) /\ Truthy(cred.client_id) /\ Truthy(cred.client_secret)
    /\ authResult.kind = "raise"

\* no scheme's required fields are populated
NoSchemePopulated(c) ==
    /\ ~Truthy(c.zenapikey)
    /\ ~Truthy(c.client_id) /\ ~Truthy(c.client_secret)
    /\ ~Truthy(c.mtls_cert_path) /\ ~Truthy(c.mtls_key_path)
    /\ ~(Truthy(c.username) /\ Truthy(c.password))

\* C4 (as stated): with no scheme populated get_auth fails with a
\* configuration error instead of returning headers.
C4_NoSchemeRaises ==
    (AuthCalled /\ NoSchemePopulated(cred)) => authResult.kind = "raise"

C4_Witness ==
    AuthCalled /\ NoSchemePopulated(cred) /\ ~Truthy(cred.pkjwt_cert_path)

Answered == AuthCalled /\ authResponse.received

BearerReturned == Returned /\ HeaderScheme(authResult.headers) = "Bearer"

Is2xx(status) == 200 <= status /\ status <= 299
IsErrorStatus(status) == 400 <= status /\ status <= 599

\* C5 (as stated): on either OAuth path a Bearer header is returned iff the
\* token endpoint answers 2xx with a JSON body holding access_token; a non-2xx
\* status, a non-JSON body and a missing access_token end the call with the
\* token-request, response-format and missing-field error respectively.
C5_BearerIff2xx ==
    Answered =>
        /\ BearerReturned <=>
              (Is2xx(authResponse.status) /\ authResponse.body = "object_with_access_token")
        /\ ~Is2xx(authResponse.status) => authResult.exc = "HTTPError"
        /\ (Is2xx(authResponse.status) /\ authResponse.body = "not_json")
              => authResult.exc = "JSONDecodeError"
        /\ (Is2xx(authResponse.status) /\ authResponse.body = "object_without_access_token")
              => authResult.exc = "KeyError"

\* C5 (amended): a Bearer header is returned iff the answer's status is not a
\* 4xx/5xx and its body is a JSON object holding access_token; a 4xx/5xx status
\* ends the call with HTTPError, otherwise a non-JSON body with
\* JSONDecodeError, otherwise an object without access_token with KeyError, and
\* then no headers are returned.
C5_BearerIffNoErrorStatus ==
    Answered =>
        /\ BearerReturned <=>
              (~IsErrorStatus(authResponse.status)
                  /\ authResponse.body = "object_with_access_token")
        /\ Returned => BearerReturned
        /\ IsErrorStatus(authResponse.status) =>
              authResult = Raise("HTTPError")
        /\ (~IsErrorStatus(authResponse.status) /\ authResponse.body = "not_json")
              => authResult = Raise("JSONDecodeError")
        /\ (~IsErrorStatus(authResponse.status)
                /\ authResponse.body = "object_without_access_token")
              => authResult = Raise("KeyError")

\* a token was accepted from an answer that is neither 2xx nor an error status
C5_Witness ==
    /\ Answered /\ BearerReturned
    /\ ~Is2xx(authResponse.status)
    /\ RequestPath(authRequests[1]) = "pkjwt"

\* exactly one of a pair was passed
OnlyOneGiven(x, y) == Truthy(x) # Truthy(y)

\* C6: constructing a profile with only one of the PKJWT certificate/key pair,
\* or only one of the mTLS pair, fails with a configuration error, so no
\* Credentials object holds a half-configured pair.
C6_HalfPairRejected ==
    /\ (ctorArgs.called /\ ( OnlyOneGiven(ctorArgs.pkjwt_cert_path, ctorArgs.pkjwt_key_path)
                          \/ OnlyOneGiven(ctorArgs.mtls_cert_path, ctorArgs.mtls_key_path)))
          => (~cred.exists /\ ctorError # "none")
    /\ cred.exists =>
          /\ ~OnlyOneGiven(cred.pkjwt_cert_path, cred.pkjwt_key_path)
          /\ ~OnlyOneGiven(cred.mtls_cert_path, cred.mtls_key_path)

\* a certificate without its key was passed with a valid URL, and rejected
C6_Witness ==
    /\ ctorArgs.called /\ ctorArgs.odm_url_valid
    /\ Truthy(ctorArgs.mtls_cert_path) /\ ~Truthy(ctorArgs.mtls_key_path)
    /\ ~OnlyOneGiven(ctorArgs.pkjwt_cert_path, ctorArgs.pkjwt_key_path)
    /\ ctorError = "ValueError: mtls pair"

-----------------------------------------------------------------------------
(* Python strings as sequences of characters *)

\* a str whose characters play no part, kept whole
Text(t)          == <<t>>
Str1(a)          == <<a>>
Str3(a, b, c)    == <<a, b, c>>
Str4(a, b, c, d) == <<a, b, c, d>>

Digits == <<"0", "1", "2", "3", "4", "5", "6", "7", "8", "9">>

IsDigit(c) == \E i \in 1..Len(Digits) : Digits[i] = c

DigitValue(c) == (CHOOSE i \in 1..Len(Digits) : Digits[i] = c) - 1

\* ord(c) of the characters of a version string
Ord(c) == IF c = "." THEN 46 ELSE 48 + DigitValue(c)

\* a < b of two Python str values: lexicographic by code point
RECURSIVE StrLess(_, _)
StrLess(a, b) ==
    IF a = <<>> THEN b # <<>>
    ELSE IF b = <<>> THEN FALSE
    ELSE IF Ord(Head(a)) # Ord(Head(b)) THEN Ord(Head(a)) < Ord(Head(b))
    ELSE StrLess(Tail(a), Tail(b))

-----------------------------------------------------------------------------
(* DecisionServerManager.extract_highest_version_rulesets *)

\* rulesets in one catalog listing
MaxRulesets == 2

Prop(id, value) == [id |-> id, value |-> value]

\* the (application name, ruleset name) parts of the ids in the listing
\* "foo" + "bar1" and "foob" + "ar1" are the same string
GroupNames == { <<"foo", "bar1">>, <<"foo1", "bar">>, <<"foob", "ar1">> }

AppVersions     == { Str3("1", ".", "0"), Str3("2", ".", "0") }
RulesetVersions == { Str3("9", ".", "0"), Str4("1", "0", ".", "0") }

PropertyBags ==
    { << Prop("ruleset.status", Text("enabled")),  Prop("tools.enabled", Text("true"))  >>,
      << Prop("ruleset.status", Text("enabled")),  Prop("tools.enabled", Text("TRUE"))  >>,
      << Prop("ruleset.status", Text("enabled")),  Prop("tools.enabled", Text("false")) >>,
      << Prop("ruleset.status", Text("enabled")),  Prop("tools.enabled", Text("yes"))   >>,
      << Prop("ruleset.status", Text("enabled")) >>,
      << Prop("ruleset.status", Text("disabled")), Prop("tools.enabled", Text("true"))  >> }

\* one ruleset of the listing with the name and version of its rule
\* application, as the loops of lines 92-96 meet it: the ruleapp id is
\* "<app>/<app_version>", the ruleset id "<app>/<app_version>/<name>"
CatalogRecords ==
    { [app |-> g[1], app_version |-> av, name |-> g[2], version |-> v, properties |-> ps] :
        g \in GroupNames, av \in AppVersions, v \in RulesetVersions, ps \in PropertyBags }

Catalogs == UNION { [1..n -> CatalogRecords] : n \in 0..MaxRulesets }

\* any(prop["id"] == id and prop["value"] == value for prop in properties)
HasProperty(r, id, value) ==
    \E i \in 1..Len(r.properties) :
        r.properties[i].id = id /\ r.properties[i].value = value

\* any(prop["id"] == id for prop in properties)
HasPropertyId(r, id) ==
    \E i \in 1..Len(r.properties) : r.properties[i].id = id

\* mutant: the status of the ruleset is not looked at
FilterTestNoStatus(r) == HasPropertyId(r, "tools.enabled")

\* the filter of lines 103-104
FilterTest(r) ==
    /\ HasProperty(r, "ruleset.status", Text("enabled"))
    /\ HasPropertyId(r, "tools.enabled")

\* lines 92-96: the keys of ruleset_groups in insertion order
RECURSIVE GroupKeys(_)
GroupKeys(d) ==
    IF d = <<>> THEN <<>>
    ELSE LET front == GroupKeys(SubSeq(d, 1, Len(d) - 1))
             g == <<d[Len(d)].app, d[Len(d)].name>>
         IN  IF \E i \in 1..Len(front) : front[i] = g THEN front ELSE Append(front, g)

\* ruleset_groups[(ruleapp_name, ruleset_name)]
GroupMembers(d, g) == SelectSeq(d, LAMBDA r : <<r.app, r.name>> = g)

\* x < y of the sort keys (x[0], x[1]["version"]) of line 108, two tuples of str
SortKeyLess(x, y) ==
    IF x.app_version # y.app_version
    THEN StrLess(x.app_version, y.app_version)
    ELSE StrLess(x.version, y.version)

\* mutant: descending, equal keys in the reverse of their order (what
\* reversing an ascending sort gives)
RECURSIVE SortedThenReversed(_)
SortedThenReversed(q) ==
    IF q = <<>> THEN <<>>
    ELSE LET front == SortedThenReversed(SubSeq(q, 1, Len(q) - 1))
             x == q[Len(q)]
         IN  IF \A i \in 1..Len(front) : SortKeyLess(x, front[i])
             THEN Append(front, x)
             ELSE LET k == CHOOSE i \in 1..Len(front) :
                              /\ ~SortKeyLess(x, front[i])
                              /\ \A j \in 1..(i - 1) : SortKeyLess(x, front[j])
                  IN  SubSeq(front, 1, k - 1) \o <<x>> \o SubSeq(front, k, Len(front))

\* sorted(..., reverse=True): descending, equal keys keep their order
RECURSIVE SortedReverse(_)
SortedReverse(q) ==
    IF q = <<>> THEN <<>>
    ELSE LET front == SortedReverse(SubSeq(q, 1, Len(q) - 1))
             x == q[Len(q)]
         IN  IF \A i \in 1..Len(front) : ~SortKeyLess(front[i], x)
             THEN Append(front, x)
             \* x goes before the first element whose key is less than x's
             ELSE LET k == CHOOSE i \in 1..Len(front) :
                              /\ SortKeyLess(front[i], x)
                              /\ \A j \in 1..(i - 1) : ~SortKeyLess(front[j], x)
                  IN  SubSeq(front, 1, k - 1) \o <<x>> \o SubSeq(front, k, Len(front))

\* line 111: str(ruleapp_name) + str(ruleset_name)
DictKey(g) == g[1] \o g[2]

\* d[key] = value of a Python dict kept as a sequence of entries
DictSet(dict, key, value) ==
    IF \E i \in 1..Len(dict) : dict[i].key = key
    THEN [i \in 1..Len(dict) |->
            IF dict[i].key = key THEN [key |-> key, value |-> value] ELSE dict[i]]
    ELSE Append(dict, [key |-> key, value |-> value])

\* lines 99-111, over the groups gs in order
RECURSIVE SelectGroups(_, _)
SelectGroups(d, gs) ==
    IF gs = <<>> THEN <<>>
    ELSE LET before == SelectGroups(d, SubSeq(gs, 1, Len(gs) - 1))
             g == gs[Len(gs)]
             filtered_rulesets == SelectSeq(GroupMembers(d, g), FilterTest)
         IN  IF filtered_rulesets = <<>> THEN before
             ELSE DictSet(before, DictKey(g), SortedReverse(filtered_rulesets)[1])

extract_highest_version_rulesets(d) == SelectGroups(d, GroupKeys(d))

Extract ==
    /\ ~extractDone
    /\ selected' = extract_highest_version_rulesets(data)
    /\ extractDone' = TRUE
    /\ UNCHANGED <<data, credVars, toolVars, schemaVars, resolveVars, serverVars, storeVars, sessVars>>

CredIdle == CredInit

CatInit ==
    /\ data \in Catalogs
    /\ selected = <<>>
    /\ extractDone = FALSE

\* a manager that is handed a console listing
CatalogStart ==
    CatInit /\ CredIdle /\ ToolIdle /\ SchemaIdle /\ ResolveIdle /\ ServerIdle /\ StoreIdle /\ SessIdle

SpecCatalog ==
    /\ CatalogStart
    /\ [][Extract]_vars

-----------------------------------------------------------------------------
(* Properties of the catalog resolver *)

SelectedValues == { selected[i].value : i \in 1..Len(selected) }
ListedRecords  == { data[i] : i \in 1..Len(data) }

GroupOf(r) == <<r.app, r.name>>

\* status "enabled" and the tool-exposure property present
EnabledAndExposed(r) ==
    /\ \E i \in 1..Len(r.properties) :
          r.properties[i] = Prop("ruleset.status", Text("enabled"))
    /\ \E i \in 1..Len(r.properties) : r.properties[i].id = "tools.enabled"

\* C7: every ruleset extract_highest_version_rulesets returns is a listed
\* ruleset with ruleset.status "enabled" that carries the tool-exposure
\* property; a disabled record is never selected, and a group without an
\* enabled and exposed record contributes no entry.
C7_OnlyEnabledSelected ==
    extractDone =>
        /\ \A r \in SelectedValues : r \in ListedRecords /\ EnabledAndExposed(r)
        /\ \A r \in SelectedValues :
              ~ \E i \in 1..Len(r.properties) :
                    r.properties[i] = Prop("ruleset.status", Text("disabled"))
        /\ \A q \in ListedRecords :
              (~ \E e \in ListedRecords : GroupOf(e) = GroupOf(q) /\ EnabledAndExposed(e))
                  => ~ \E r \in SelectedValues : GroupOf(r) = GroupOf(q)

\* the disabled record of a group has its highest version, and the enabled
\* one was selected
C7_Witness ==
    /\ extractDone
    /\ \E q \in ListedRecords, r \in SelectedValues :
          /\ GroupOf(q) = GroupOf(r)
          /\ q.properties[1] = Prop("ruleset.status", Text("disabled"))
          /\ q.app_version = r.app_version
          /\ q.version = Str4("1", "0", ".", "0") /\ r.version = Str3("9", ".", "0")

\* the components of a dotted version number, e.g. "10.0" -> <<10, 0>>
RECURSIVE DottedComponents(_, _, _)
DottedComponents(chars, acc, done) ==
    IF chars = <<>> THEN Append(done, acc)
    ELSE IF Head(chars) = "." THEN DottedComponents(Tail(chars), 0, Append(done, acc))
    ELSE DottedComponents(Tail(chars), 10 * acc + DigitValue(Head(chars)), done)

RECURSIVE ComponentsLess(_, _)
ComponentsLess(a, b) ==
    IF a = <<>> THEN b # <<>>
    ELSE IF b = <<>> THEN FALSE
    ELSE IF Head(a) # Head(b) THEN Head(a) < Head(b)
    ELSE ComponentsLess(Tail(a), Tail(b))

DottedLess(v, w) ==
    ComponentsLess(DottedComponents(v, 0, <<>>), DottedComponents(w, 0, <<>>))

\* (application version, ruleset version) of x below that of y, as dotted numbers
VersionPairLess(x, y) ==
    \/ DottedLess(x.app_version, y.app_version)
    \/ /\ ~DottedLess(y.app_version, x.app_version)
       /\ DottedLess(x.version, y.version)

\* C8 (as stated): no eligible candidate of a group has a strictly higher
\* (application version, ruleset version), compared as dotted version
\* numbers, than the group's selected representative.
C8_HighestDottedVersion ==
    extractDone =>
        \A r \in SelectedValues : \A q \in ListedRecords :
            (GroupOf(q) = GroupOf(r) /\ EnabledAndExposed(q)) => ~VersionPairLess(r, q)

\* versions 9.0 and 10.0 of one eligible ruleset were listed and one was selected
C8_Witness ==
    /\ extractDone
    /\ \E q \in ListedRecords, r \in SelectedValues :
          /\ GroupOf(q) = GroupOf(r) /\ EnabledAndExposed(q)
          /\ q.app_version = r.app_version /\ q.version # r.version

\* str.lower() of the flag values of the model
FlagLower(v) == IF v = Text("TRUE") THEN Text("true") ELSE v

\* C9 (as stated): a ruleset is selected only when its enablement flag
\* property has the value "true", compared case-insensitively.
C9_FlagMustBeTrue ==
    extractDone =>
        \A r \in SelectedValues :
            \E i \in 1..Len(r.properties) :
                /\ r.properties[i].id = "tools.enabled"
                /\ FlagLower(r.properties[i].value) = Text("true")

\* an enabled ruleset whose flag is "false" was listed
C9_Witness ==
    /\ extractDone
    /\ \E q \in ListedRecords :
          q.properties = << Prop("ruleset.status", Text("enabled")), Prop("tools.enabled", Text("false")) >>

-----------------------------------------------------------------------------
(* DecisionServerManager.generate_tools_format *)

\* rulesets in the mapping handed to generate_tools_format
MaxSelected == 2

UpperCase == <<"A", "B", "C", "D", "E", "F", "G", "H", "I", "J", "K", "L", "M",
               "N", "O", "P", "Q", "R", "S", "T", "U", "V", "W", "X", "Y", "Z">>
LowerCase == <<"a", "b", "c", "d", "e", "f", "g", "h", "i", "j", "k", "l", "m",
               "n", "o", "p", "q", "r", "s", "t", "u", "v", "w", "x", "y", "z">>

IsUpper(c) == \E i \in 1..Len(UpperCase) : UpperCase[i] = c

\* str.replace(old, new) for one-character old and new
Replace(str, old, new) ==
    [i \in 1..Len(str) |-> IF str[i] = old THEN new ELSE str[i]]

\* str.lower()
Lower(str) ==
    [i \in 1..Len(str) |->
        IF IsUpper(str[i])
        THEN LowerCase[CHOOSE k \in 1..Len(UpperCase) : UpperCase[k] = str[i]]
        ELSE str[i]]

\* next((prop["value"] for prop in properties if prop["id"] == id), default)
PropertyValue(r, id, default) ==
    IF \E i \in 1..Len(r.properties) : r.properties[i].id = id
    THEN r.properties[CHOOSE i \in 1..Len(r.properties) :
                          /\ r.properties[i].id = id
                          /\ \A j \in 1..(i - 1) : r.properties[j].id # id].value
    ELSE default

\* line 260
ToolName(r) ==
    Lower(Replace(PropertyValue(r, "tools.name", r.displayName), " ", "_"))

\* line 261
ToolDescription(r) == PropertyValue(r, "tools.description", r.description)

\* line 259
CallbackName(r) == PropertyValue(r, "tools.callback", Text(NoneV))

\* values of the tools.parameters property: the empty-array sentinel, an
\* embedded JSON schema, and text that is not JSON
EmptyArraySentinel == Text("[]")
EmbeddedSchema     == Text("{\"type\":\"object\",\"properties\":{\"name\":{\"type\":\"string\"}}}")
MalformedJson      == Text("{not json")
\* an embedded schema that declares and requires the decision-ID field
EmbeddedSchemaWithId ==
    Text("{\"type\":\"object\",\"properties\":{\"name\":{},\"__DecisionID__\":{}},\"required\":[\"__DecisionID__\"]}")
\* the property present with an empty string, and with a JSON null
EmptyText == Text("")
NullValue == Text(NoneV)

Ok(v)      == [kind |-> "ok", exc |-> "", value |-> v]
Raises(e)  == [kind |-> "raise", exc |-> e, value |-> NoneV]

\* an object schema: the names under "properties" and the "required" list
Schema(props, req) == [type |-> "object", properties |-> props, required |-> req]
\* None where a schema is expected
NoSchema == [type |-> NoneV, properties |-> {}, required |-> {}]

\* json.loads of a tools.parameters value
JsonLoads(text) ==
    IF text = EmbeddedSchema THEN Ok(Schema({"name"}, {}))
    ELSE IF text = EmbeddedSchemaWithId
        THEN Ok(Schema({"name", "__DecisionID__"}, {"__DecisionID__"}))
    ELSE Raises("JSONDecodeError")

\* hasattr(obj, name) of a modelled object
HasAttr(obj, name) == name \in DOMAIN obj

\* what session.get(.../openapi?format=json) ends in: a RequestException, or
\* a response with a status and a body; a body is text that is not JSON, a
\* document without the path of the ruleset, or a document holding the
\* request schema of the ruleset
TransportError == [kind |-> "transport_error", status |-> 0, body |-> [json |-> FALSE]]
Answer(status, body) == [kind |-> "response", status |-> status, body |-> body]
MalformedBody == [json |-> FALSE]
NoPathBody    == [json |-> TRUE, has_path |-> FALSE, schema |-> NoSchema]
SchemaBody(schema) == [json |-> TRUE, has_path |-> TRUE, schema |-> schema]

OpenApiSchemas ==
    { Schema({"name"}, {"name"}),
      Schema({"name", "__DecisionID__"}, {"name"}),
      Schema({"name", "__DecisionID__"}, {"name", "__DecisionID__"}) }

OpenApiAnswers ==
    {TransportError}
    \cup { Answer(200, b) : b \in {MalformedBody, NoPathBody} \cup { SchemaBody(sc) : sc \in OpenApiSchemas } }
    \cup { Answer(st, MalformedBody) : st \in {201, 404} }

\* the result of a call together with the OpenAPI requests it sent
WithRequests(res, n) ==
    [kind |-> res.kind, exc |-> res.exc, value |-> res.value, requests |-> n]

\* lines 205-206: the decision-ID entry is deleted from "properties"
StripDecisionId(schema) ==
    [schema EXCEPT !.properties = @ \ {"__DecisionID__"}]

\* get_ruleset_openapi: line 190 reads self.credentials.odm_url_runtime before
\* any request is made; the AttributeError of a Credentials object without
\* that attribute is none of the exceptions lines 213-216 catch, and neither
\* is the KeyError of line 204.  A caught exception and a status other than
\* 200 end the method without a return statement (None).
get_ruleset_openapi(c, r, answer) ==
    IF ~HasAttr(c, "odm_url_runtime") THEN WithRequests(Raises("AttributeError"), 0)
    ELSE IF answer.kind = "transport_error" THEN WithRequests(Ok(NoSchema), 1)
    ELSE IF answer.status # 200 THEN WithRequests(Ok(NoSchema), 1)
    ELSE IF ~answer.body.json THEN WithRequests(Ok(NoSchema), 1)
    ELSE IF ~answer.body.has_path THEN WithRequests(Raises("KeyError"), 1)
    ELSE WithRequests(Ok(StripDecisionId(answer.body.schema)), 1)

\* line 234
InputSchemaFallsBack(tools_parameters) ==
    tools_parameters = NullValue \/ tools_parameters = EmptyArraySentinel

\* get_input_schema, lines 232-238
get_input_schema(c, r, answer) ==
    LET tools_parameters == PropertyValue(r, "tools.parameters", EmptyArraySentinel) IN
    IF InputSchemaFallsBack(tools_parameters)
    THEN get_ruleset_openapi(c, r, answer)
    ELSE WithRequests(JsonLoads(tools_parameters), 0)

\* DecisionServiceDescription.__init__(self, tool_name, ruleset, input_schema,
\* callback_name=None) applied to the positional arguments args
DecisionServiceDescription(args) ==
    IF Len(args) < 3 \/ Len(args) > 4 THEN Raises("TypeError")
    ELSE Ok([ tool_name    |-> args[1],
              engine       |-> "odm",
              rulesetPath  |-> "/" \o args[2].id,
              callbackName |-> IF Len(args) = 4 THEN args[4] ELSE Text(NoneV),
              ruleset      |-> args[2],
              tool_description |-> [ name        |-> args[1],
                                     description |-> args[2].description,
                                     inputSchema |-> args[3] ] ])

\* lines 258-263 for one ruleset: the descriptor, or the exception raised
FormatRuleset(c, r, answer) ==
    LET input_schema == get_input_schema(c, r, answer) IN
    IF input_schema.kind = "raise" THEN Raises(input_schema.exc)
    ELSE DecisionServiceDescription(
             << ToolName(r), r, ToolDescription(r), input_schema.value, CallbackName(r) >>)

\* the loop of lines 256-264 over the mapping's values, in order
RECURSIVE FormatAll(_, _, _, _)
FormatAll(c, entries, formatted_tools, answer) ==
    IF entries = <<>> THEN [kind |-> "ok", exc |-> "", tools |-> formatted_tools]
    ELSE LET one == FormatRuleset(c, Head(entries).value, answer) IN
         IF one.kind = "raise"
         THEN [kind |-> "raise", exc |-> one.exc, tools |-> <<>>]
         ELSE FormatAll(c, Tail(entries), Append(formatted_tools, one.value), answer)

\* what fetch_rulesets returns: a dict, as its entries in insertion order, or
\* None after a failed fetch
Mapping(entries) == [is_none |-> FALSE, entries |-> entries]
NoMapping        == [is_none |-> TRUE, entries |-> <<>>]

\* generate_tools_format; None has no values()
generate_tools_format(c, filtered_rulesets, answer) ==
    IF filtered_rulesets.is_none
    THEN [kind |-> "raise", exc |-> "AttributeError", tools |-> <<>>]
    ELSE FormatAll(c, filtered_rulesets.entries, <<>>, answer)

GenerateToolsFormat ==
    /\ toolResult.kind = "not_called"
    /\ toolResult' = generate_tools_format(cred, toolInput, openapiResponse)
    /\ UNCHANGED <<toolInput, ctorArgs, cred, ctorError, authCalls, authResult,
                   authRequests, authResponse, tokenPosts, catVars,
                   openapiResponse, schemaVars, resolveVars, serverVars, storeVars, sessVars>>

\* the rulesets the model hands to generate_tools_format
DisplayNames == { Str4("L", "n", " ", "A"), Str3("a", "_", "b") }
ExplicitNames == { Str3("C", " ", "T"), Str1("x") }

ToolPropertyBags ==
    { params \o name :
        params \in { <<>>,
                     << Prop("tools.parameters", EmptyArraySentinel) >>,
                     << Prop("tools.parameters", EmbeddedSchema) >>,
                     << Prop("tools.parameters", MalformedJson) >> },
        name \in { <<>> } \cup { << Prop("tools.name", n) >> : n \in ExplicitNames } }
    \cup
    { params \o description :
        params \in { <<>>,
                     << Prop("tools.parameters", EmbeddedSchema) >>,
                     << Prop("tools.parameters", EmbeddedSchemaWithId) >>,
                     << Prop("tools.parameters", EmptyText) >>,
                     << Prop("tools.parameters", NullValue) >> },
        description \in { <<>>, << Prop("tools.description", Text("custom description")) >> } }

ToolRulesets ==
    { [ id |-> "app/1.0/rs", displayName |-> dn, description |-> Text("a ruleset"),
        properties |-> << Prop("ruleset.status", Text("enabled")), Prop("tools.enabled", Text("true")) >> \o ps ] :
        dn \in DisplayNames, ps \in ToolPropertyBags }

\* the keys of the mapping, in insertion order
SelectedKeys == <<"app1rs", "app2rs", "app3rs", "app4rs">>

SelectedMappings ==
    UNION { { Mapping([i \in 1..n |-> [key |-> SelectedKeys[i], value |-> f[i]]]) :
                f \in [1..n -> ToolRulesets] } : n \in 0..MaxSelected }

\* the Credentials object of the manager: username and password
ManagerCredentials ==
    CtorObject([ called |-> TRUE, odm_url_valid |-> TRUE,
                 username |-> "user", password |-> "pass", zenapikey |-> NoneV,
                 client_id |-> NoneV, client_secret |-> NoneV, token_url |-> NoneV,
                 pkjwt_cert_path |-> NoneV, pkjwt_key_path |-> NoneV,
                 pkjwt_key_password |-> NoneV, mtls_cert_path |-> NoneV,
                 mtls_key_path |-> NoneV, mtls_key_password |-> NoneV ])

\* a credentials object that also carries the runtime URL which lines 190,
\* 192 and 320 read
RuntimeCredentials == ManagerCredentials @@ ("odm_url_runtime" :> "http://runtime/DecisionService")

ToolInit ==
    /\ toolInput \in SelectedMappings \cup {NoMapping}
    /\ toolResult = [kind |-> "not_called", exc |-> "", tools |-> <<>>]
    /\ openapiResponse \in OpenApiAnswers
    /\ ctorArgs = NoArgs
    /\ cred \in {ManagerCredentials, RuntimeCredentials}
    /\ ctorError = "none"
    /\ authCalls = 0
    /\ authResult = NoResult
    /\ authRequests = <<>>
    /\ authResponse = NoResponse
    /\ tokenPosts = 0

\* a manager that is handed the selected rulesets
ToolsStart == ToolInit /\ CatIdle /\ SchemaIdle /\ ResolveIdle /\ ServerIdle /\ StoreIdle /\ SessIdle

SpecTools ==
    /\ ToolsStart
    /\ [][GenerateToolsFormat]_vars

-----------------------------------------------------------------------------
(* Properties of the tool schema builder *)

ToolsCalled == toolResult.kind # "not_called"

\* the explicit tool-name property if present, otherwise the display name
NameSource(r) ==
    IF \E i \in 1..Len(r.properties) : r.properties[i].id = "tools.name"
    THEN (CHOOSE q \in { r.properties[i] : i \in 1..Len(r.properties) } :
              q.id = "tools.name").value
    ELSE r.displayName

\* spaces replaced by underscores, letters lowercased
Normalized(str) == Lower(Replace(str, " ", "_"))

HasEmbeddedSchema(r) ==
    \E i \in 1..Len(r.properties) :
        r.properties[i] = Prop("tools.parameters", EmbeddedSchema)

\* C10 (as stated): for every selected ruleset generate_tools_format produces
\* a tool whose name is the explicit tool-name property if present, else the
\* display name, with spaces replaced by underscores and letters lowercased;
\* the name holds no space and no uppercase letter, and normalizing it again
\* leaves it unchanged.
C10_ToolNameProduced ==
    (ToolsCalled /\ ~toolInput.is_none
        /\ \A i \in 1..Len(toolInput.entries) :
              HasEmbeddedSchema(toolInput.entries[i].value)) =>
        /\ toolResult.kind = "ok"
        /\ Len(toolResult.tools) = Len(toolInput.entries)
        /\ \A i \in 1..Len(toolResult.tools) :
              LET n == toolResult.tools[i].tool_name IN
              /\ n = Normalized(NameSource(toolInput.entries[i].value))
              /\ \A k \in 1..Len(n) : n[k] # " " /\ ~IsUpper(n[k])
              /\ Normalized(n) = n

\* generate_tools_format was called on a ruleset with an embedded schema
C10_Witness ==
    /\ ToolsCalled /\ ~toolInput.is_none /\ Len(toolInput.entries) > 0
    /\ \A i \in 1..Len(toolInput.entries) :
          HasEmbeddedSchema(toolInput.entries[i].value)

\* the description property if present, otherwise the ruleset's description
DescriptionSource(r) ==
    IF \E i \in 1..Len(r.properties) : r.properties[i].id = "tools.description"
    THEN (CHOOSE q \in { r.properties[i] : i \in 1..Len(r.properties) } :
              q.id = "tools.description").value
    ELSE r.description

HasDescriptionProperty(r) ==
    \E i \in 1..Len(r.properties) : r.properties[i].id = "tools.description"

\* C11 (as stated): for every selected ruleset the descriptor built by
\* generate_tools_format, and the MCP tool inside it, carry as description
\* the value of the description property when it is present and the
\* ruleset's own description field otherwise.
C11_DescriptionProduced ==
    (ToolsCalled /\ ~toolInput.is_none
        /\ \A i \in 1..Len(toolInput.entries) :
              HasEmbeddedSchema(toolInput.entries[i].value)) =>
        /\ toolResult.kind = "ok"
        /\ Len(toolResult.tools) = Len(toolInput.entries)
        /\ \A i \in 1..Len(toolResult.tools) :
              toolResult.tools[i].tool_description.description
                  = DescriptionSource(toolInput.entries[i].value)

\* generate_tools_format was called on rulesets with an embedded schema, one
\* of them with a description property
C11_Witness ==
    /\ ToolsCalled /\ ~toolInput.is_none /\ Len(toolInput.entries) > 0
    /\ \A i \in 1..Len(toolInput.entries) :
          HasEmbeddedSchema(toolInput.entries[i].value)
    /\ \E i \in 1..Len(toolInput.entries) :
          HasDescriptionProperty(toolInput.entries[i].value)

-----------------------------------------------------------------------------
(* DecisionServerManager.get_input_schema called on one ruleset *)

GetInputSchema ==
    /\ schemaResult.kind = "not_called"
    /\ schemaResult' = get_input_schema(cred, schemaRuleset, openapiResponse)
    /\ UNCHANGED <<schemaRuleset, openapiResponse, toolInput, toolResult,
                   credVars, catVars, resolveVars, serverVars, storeVars, sessVars>>

SchemaInit ==
    /\ schemaRuleset \in ToolRulesets
    /\ schemaResult = [kind |-> "not_called"]
    /\ openapiResponse \in OpenApiAnswers
    /\ toolInput = [is_none |-> TRUE, entries |-> <<>>]
    /\ toolResult = [kind |-> "not_called", exc |-> "", tools |-> <<>>]
    /\ ctorArgs = NoArgs
    /\ cred \in {ManagerCredentials, RuntimeCredentials}
    /\ ctorError = "none"
    /\ authCalls = 0
    /\ authResult = NoResult
    /\ authRequests = <<>>
    /\ authResponse = NoResponse
    /\ tokenPosts = 0

\* a manager asked for the input schema of one ruleset
SchemaStart == SchemaInit /\ CatIdle /\ ResolveIdle /\ ServerIdle /\ StoreIdle /\ SessIdle

SpecSchema ==
    /\ SchemaStart
    /\ [][GetInputSchema]_vars

-----------------------------------------------------------------------------
(* Properties of get_input_schema *)

SchemaCalled == schemaResult.kind # "not_called"

HasParametersProperty(r) ==
    \E i \in 1..Len(r.properties) : r.properties[i].id = "tools.parameters"

\* the value of the embedded parameter-schema property of a ruleset that has one
ParametersOf(r) ==
    (CHOOSE q \in { r.properties[i] : i \in 1..Len(r.properties) } :
         q.id = "tools.parameters").value

\* the property is absent, empty, or the empty-array sentinel
ParametersUnset(r) ==
    \/ ~HasParametersProperty(r)
    \/ ParametersOf(r) \in {NullValue, EmptyText, EmptyArraySentinel}

\* C12 (as stated): get_input_schema returns the parsed embedded schema
\* without an OpenAPI request when the property is present and neither
\* empty nor "[]"; when the property is absent, empty or "[]" it goes to the
\* OpenAPI endpoint instead; it never does both.
C12_EmbeddedOrOpenApi ==
    SchemaCalled =>
        /\ (~ParametersUnset(schemaRuleset) /\ ParametersOf(schemaRuleset) # MalformedJson) =>
               /\ schemaResult.kind = "ok"
               /\ schemaResult = WithRequests(JsonLoads(ParametersOf(schemaRuleset)), 0)
        /\ ParametersUnset(schemaRuleset) =>
               /\ schemaResult.requests = 1
               /\ schemaResult.kind # "raise" \/ schemaResult.exc # "JSONDecodeError"

\* get_input_schema was called on a ruleset whose property is the empty string
C12_Witness ==
    /\ SchemaCalled
    /\ HasParametersProperty(schemaRuleset)
    /\ ParametersOf(schemaRuleset) = EmptyText

\* C13 (as stated): the input schema that is exposed never mentions
\* __DecisionID__, neither under its properties nor in its required list,
\* whether it came from the OpenAPI document or from the embedded property.
C13_NoDecisionIdExposed ==
    (SchemaCalled /\ schemaResult.kind = "ok") =>
        /\ "__DecisionID__" \notin schemaResult.value.properties
        /\ "__DecisionID__" \notin schemaResult.value.required

\* a schema that mentions the decision ID was embedded, or was served
C13_Witness ==
    /\ SchemaCalled /\ schemaResult.kind = "ok"
    /\ \/ /\ HasParametersProperty(schemaRuleset)
          /\ ParametersOf(schemaRuleset) = EmbeddedSchemaWithId
       \/ /\ schemaResult.requests = 1
          /\ openapiResponse.kind = "response" /\ openapiResponse.status = 200
          /\ openapiResponse.body.json /\ openapiResponse.body.has_path
          /\ "__DecisionID__" \in openapiResponse.body.schema.properties

-----------------------------------------------------------------------------
(* Properties of generate_tools_format when the OpenAPI document fails *)

\* the OpenAPI request of a ruleset fails: transport error, a status other
\* than 2xx, text that is not JSON, or a document without the expected keys
OpenApiFails ==
    \/ openapiResponse.kind = "transport_error"
    \/ /\ openapiResponse.kind = "response"
       /\ \/ openapiResponse.status >= 300
          \/ ~openapiResponse.body.json
          \/ ~openapiResponse.body.has_path

\* the entries of the mapping whose schema is embedded
RECURSIVE EmbeddedEntries(_)
EmbeddedEntries(entries) ==
    IF entries = <<>> THEN <<>>
    ELSE IF HasEmbeddedSchema(Head(entries).value)
         THEN <<Head(entries)>> \o EmbeddedEntries(Tail(entries))
         ELSE EmbeddedEntries(Tail(entries))

\* every ruleset either embeds a schema or needs the OpenAPI document
EmbeddedOrFallback(entries) ==
    \A i \in 1..Len(entries) :
        \/ HasEmbeddedSchema(entries[i].value)
        \/ ~HasParametersProperty(entries[i].value)

\* C14 (as stated): when the OpenAPI document of a selected ruleset cannot
\* be fetched or parsed, generate_tools_format does not raise, returns no
\* descriptor for that ruleset and still returns one for every other.
C14_FailedRulesetSkipped ==
    (ToolsCalled /\ ~toolInput.is_none /\ OpenApiFails
        /\ EmbeddedOrFallback(toolInput.entries)) =>
        /\ toolResult.kind = "ok"
        /\ LET kept == EmbeddedEntries(toolInput.entries) IN
           /\ Len(toolResult.tools) = Len(kept)
           /\ \A i \in 1..Len(toolResult.tools) :
                 toolResult.tools[i].ruleset = kept[i].value

\* two rulesets were selected, the first needs the OpenAPI document, which
\* fails, and the second embeds its schema
C14_Witness ==
    /\ ToolsCalled /\ ~toolInput.is_none /\ OpenApiFails
    /\ HasAttr(cred, "odm_url_runtime")
    /\ Len(toolInput.entries) = 2
    /\ ~HasParametersProperty(toolInput.entries[1].value)
    /\ HasEmbeddedSchema(toolInput.entries[2].value)

-----------------------------------------------------------------------------
(* DecisionServerManager.to_plain_dict *)

\* objects in the structure handed to to_plain_dict
MaxNodes == 3
\* nested to_plain_dict calls the interpreter allows before RecursionError
RecursionLimit == 4

Nodes == 1..MaxNodes

\* an object: a str, a dict or a list with its values, a reference proxy
\* (it has __reference__ and a subject), an instance whose to_dict() returns
\* another object, or any other instance
Object(kind, children, has_dict) ==
    [kind |-> kind, children |-> children, has_dict |-> has_dict]

ChildLists(maxLen) == UNION { [1..n -> Nodes] : n \in 0..maxLen }

Objects ==
    { Object("str", <<>>, FALSE), Object("object", <<>>, TRUE) }
    \cup { Object("dict", cs, FALSE) : cs \in ChildLists(2) }
    \cup { Object("list", <<t>>, FALSE) : t \in Nodes }
    \cup { Object("ref", <<t>>, hd) : t \in Nodes, hd \in BOOLEAN }
    \cup { Object("to_dict", <<t>>, TRUE) : t \in Nodes }

\* hasattr(obj, '__dict__'): false of a str, a dict and a list
HasDictAttr(o) == o.has_dict

\* the values to_plain_dict builds
CircularMarker(n) == [tag |-> "circular_reference", node |-> n, items |-> <<>>]
StrOf(n)          == [tag |-> "str()", node |-> n, items |-> <<>>]
Primitive(n)      == [tag |-> "primitive", node |-> n, items |-> <<>>]
Container(kind, n, items) == [tag |-> kind, node |-> n, items |-> items]

PlainReturn(v, visited, errors) ==
    [raised |-> FALSE, value |-> v, visited |-> visited, errors |-> errors]
RaisedRecursionError(visited) ==
    [raised |-> TRUE, value |-> Primitive(0), visited |-> visited, errors |-> TRUE]

\* lines 145 and 149: only an object with __dict__ is looked up in, and
\* added to, _visited
TracksObject(o) == HasDictAttr(o)

\* to_plain_dict(obj, _visited) at call depth depth.  _visited is one set
\* shared by all the nested calls.  A call beyond the interpreter's limit
\* raises RecursionError, which the except clause of the calling level
\* (lines 172-174) turns into str(obj).
RECURSIVE to_plain_dict(_, _, _, _)
RECURSIVE ToPlainItems(_, _, _, _)
to_plain_dict(h, n, depth, visited) ==
    IF depth > RecursionLimit THEN RaisedRecursionError(visited)
    ELSE IF TracksObject(h[n]) /\ n \in visited
        THEN PlainReturn(CircularMarker(n), visited, FALSE)
    ELSE
        LET o  == h[n]
            v1 == IF TracksObject(o) THEN visited \cup {n} ELSE visited
        IN  IF o.kind \in {"dict", "list"}
            THEN LET items == ToPlainItems(h, o.children, depth + 1, v1) IN
                 IF items.raised
                 THEN PlainReturn(StrOf(n), items.visited, TRUE)
                 ELSE PlainReturn(Container(o.kind, n, items.items), items.visited, items.errors)
            ELSE IF o.kind \in {"ref", "to_dict"}
            THEN LET sub == to_plain_dict(h, o.children[1], depth + 1, v1) IN
                 IF sub.raised
                 THEN PlainReturn(StrOf(n), sub.visited, TRUE)
                 ELSE sub
            ELSE IF o.kind = "str"
            THEN PlainReturn(Primitive(n), v1, FALSE)
            ELSE PlainReturn(StrOf(n), v1, FALSE)

\* the comprehensions of lines 155 and 158, left to right
ToPlainItems(h, children, depth, visited) ==
    IF children = <<>>
    THEN [raised |-> FALSE, items |-> <<>>, visited |-> visited, errors |-> FALSE]
    ELSE LET first == to_plain_dict(h, Head(children), depth, visited) IN
         IF first.raised
         THEN [raised |-> TRUE, items |-> <<>>, visited |-> first.visited, errors |-> TRUE]
         ELSE LET rest == ToPlainItems(h, Tail(children), depth, first.visited) IN
              IF rest.raised THEN rest
              ELSE [raised |-> FALSE, items |-> <<first.value>> \o rest.items,
                    visited |-> rest.visited, errors |-> first.errors \/ rest.errors]

\* to_plain_dict(obj) called on the object 1 of the heap
ToPlainDict ==
    /\ plainResult.kind = "not_called"
    /\ LET res == to_plain_dict(heap, 1, 1, {}) IN
       plainResult' = [kind |-> "returned", value |-> res.value,
                       recursion_errors |-> res.errors]
    /\ UNCHANGED <<heap, credVars, catVars, toolVars, schemaVars, serverVars, storeVars, sessVars>>

ResolveInit ==
    /\ heap \in [Nodes -> Objects]
    /\ plainResult = [kind |-> "not_called"]

\* a manager handed a structure to convert
ResolveStart ==
    ResolveInit /\ CredIdle /\ CatIdle /\ ToolIdle /\ SchemaIdle /\ ServerIdle /\ StoreIdle /\ SessIdle

SpecResolve ==
    /\ ResolveStart
    /\ [][ToPlainDict]_vars

-----------------------------------------------------------------------------
(* Properties of to_plain_dict *)

ChildrenOf(h, n) == { h[n].children[i] : i \in 1..Len(h[n].children) }

\* a dict or list that is reachable from object 1 through dicts and lists
\* only, and from itself
IsContainer(o) == o.kind \in {"dict", "list"}

RECURSIVE ContainerReach(_, _, _)
ContainerReach(h, S, k) ==
    IF k = 0 THEN S
    ELSE ContainerReach(h,
             S \cup { m \in UNION { ChildrenOf(h, n) : n \in S } : IsContainer(h[m]) },
             k - 1)

ContainerCycle(h) ==
    /\ IsContainer(h[1])
    /\ \E n \in ContainerReach(h, {1}, MaxNodes) :
          n \in ContainerReach(h, { m \in ChildrenOf(h, n) : IsContainer(h[m]) }, MaxNodes)

RECURSIVE HasMarker(_)
HasMarker(v) ==
    \/ v.tag = "circular_reference"
    \/ \E i \in 1..Len(v.items) : HasMarker(v.items[i])

PlainCalled == plainResult.kind # "not_called"

\* C15 (as stated): on a structure in which a dict or list refers to itself,
\* directly or through a chain of dicts and lists, to_plain_dict ends
\* without running into the recursion limit and its output holds a
\* circular-reference marker where the cycle closes.
C15_CycleMarked ==
    (PlainCalled /\ ContainerCycle(heap)) =>
        /\ ~plainResult.recursion_errors
        /\ HasMarker(plainResult.value)

\* to_plain_dict was called on a dict that holds itself
C15_Witness ==
    /\ PlainCalled
    /\ heap[1] = Object("dict", <<1>>, FALSE)

-----------------------------------------------------------------------------
(* DecisionServerManager.__init__, fetch_rulesets, invokeDecisionService *)

\* the token endpoint as the manager's get_auth call of line 68 meets it
ManagerAuthEnv ==
    [cert_ok |-> TRUE, transport_ok |-> TRUE, status |-> 200,
     body |-> "object_with_access_token", token |-> "tokA"]

\* DecisionServerManager.__init__(self, credentials) called with the keyword
\* arguments keywords: a keyword it does not declare is a TypeError; line 68
\* keeps the headers get_auth returns
NewManager(keywords, c) ==
    IF keywords # {"credentials"}
    THEN [kind |-> "raise", exc |-> "TypeError", manager |-> [exists |-> FALSE]]
    ELSE [kind |-> "ok", exc |-> "",
          manager |-> [exists |-> TRUE, credentials |-> c,
                       headers |-> get_auth(c, ManagerAuthEnv).result.headers]]

\* the listing GET <odm_url>/api/v1/ruleapps answers with: rulesets with the
\* fields of the console (id, displayName, description, version, properties)
ServerPropertyBags ==
    { << Prop("ruleset.status", Text("enabled")), Prop("tools.enabled", Text("true")),
         Prop("tools.parameters", EmbeddedSchema) >>,
      << Prop("ruleset.status", Text("enabled")), Prop("tools.enabled", Text("true")) >>,
      << Prop("ruleset.status", Text("disabled")), Prop("tools.enabled", Text("true")) >> }

ServerCatalogRecords ==
    { [ app |-> "foo", app_version |-> Str3("1", ".", "0"), name |-> "bar1",
        version |-> Str3("1", ".", "0"), properties |-> ps,
        id |-> "foo/1.0/bar1/1.0", displayName |-> Str3("a", " ", "B"),
        description |-> Text("a ruleset") ] : ps \in ServerPropertyBags }

\* two enabled rulesets of different groups whose display names, "a B" and
\* "a_b", both give the tool name "a_b"
SameNameCatalog ==
    LET ps == << Prop("ruleset.status", Text("enabled")), Prop("tools.enabled", Text("true")),
                 Prop("tools.parameters", EmbeddedSchema) >>
    IN  << [ app |-> "foo", app_version |-> Str3("1", ".", "0"), name |-> "bar1",
             version |-> Str3("1", ".", "0"), properties |-> ps,
             id |-> "foo/1.0/bar1/1.0", displayName |-> Str3("a", " ", "B"),
             description |-> Text("a ruleset") ],
           [ app |-> "foo1", app_version |-> Str3("1", ".", "0"), name |-> "bar",
             version |-> Str3("1", ".", "0"), properties |-> ps,
             id |-> "foo1/1.0/bar/1.0", displayName |-> Str3("a", "_", "b"),
             description |-> Text("another ruleset") ] >>

ServerCatalogs == { <<>>, SameNameCatalog } \cup { <<r>> : r \in ServerCatalogRecords }

ListingBody(d) == [json |-> TRUE, data |-> d]

CatalogAnswers ==
    { TransportError, Answer(404, MalformedBody), Answer(500, MalformedBody),
      Answer(200, MalformedBody) }
    \cup { Answer(200, ListingBody(d)) : d \in ServerCatalogs }

\* fetch_rulesets: a RequestException, a status other than 200 and a body
\* that is not JSON are logged and the method ends without a return (None)
fetch_rulesets(answer) ==
    IF answer.kind = "transport_error" THEN NoMapping
    ELSE IF answer.status # 200 THEN NoMapping
    ELSE IF ~answer.body.json THEN NoMapping
    ELSE Mapping(extract_highest_version_rulesets(answer.body.data))

\* JSON values and the Python objects json gives for them; a dict is its
\* items in order
JStr(t)      == [type |-> "str", text |-> t, items |-> <<>>]
JNum(t)      == [type |-> "int", text |-> t, items |-> <<>>]
PyNone       == [type |-> "NoneType", text |-> "None", items |-> <<>>]
PyDict(its)  == [type |-> "dict", text |-> "", items |-> its]
Item(k, v)   == [key |-> k, value |-> v]

\* dict.get(key) is not None
RECURSIVE DictGet(_, _)
DictGet(its, key) ==
    IF its = <<>> THEN PyNone
    ELSE IF Head(its).key = key THEN Head(its).value
    ELSE DictGet(Tail(its), key)

\* del dict[key]
DictDel(its, key) == SelectSeq(its, LAMBDA it : it.key # key)

HasKey(its, key) == \E i \in 1..Len(its) : its[i].key = key

\* the decision-ID and decision-trace values a response can carry
DecisionIds == { PyNone, JStr("abc") }
TraceDict   == PyDict(<< Item("rules", JNum("2")) >>)
TraceJsonString == JStr("{\"rules\": 2}")
TraceRawString  == JStr("rule a fired")
DecisionTraces == { TraceDict, TraceJsonString, TraceRawString, JNum("7"), PyNone }

\* the bodies of a 200 answer of the runtime
DecisionBodies ==
    { PyDict(<< Item("result", JStr("ok")) >>) }
    \cup { PyDict(<< Item("result", JStr("ok")), Item("__DecisionID__", id) >>) :
             id \in DecisionIds }
    \cup { PyDict(<< Item("__DecisionID__", JStr("abc")), Item("__decisionTrace__", tr),
                     Item("result", JStr("ok")) >>) : tr \in DecisionTraces }
    \cup { JStr("string_response") }

DecisionBody(v) == [json |-> TRUE, value |-> v]

DecisionAnswers ==
    { TransportError, Answer(500, MalformedBody), Answer(404, MalformedBody) }
    \cup { Answer(200, DecisionBody(v)) : v \in DecisionBodies }

\* the dict a caught RequestException is turned into (line 329)
ErrorDict == PyDict(<< Item("error", JStr("An error occurred when invoking the Decision Service")) >>)

\* invokeDecisionService: {**decisionInputs} of None is a TypeError; the
\* AttributeError of a credentials object without odm_url_runtime (line 320)
\* is not a RequestException; a status other than 200 is printed and the
\* method ends without a return (None)
invokeDecisionService(c, decisionInputs, answer) ==
    IF decisionInputs.type = "NoneType"
    THEN [kind |-> "raise", exc |-> "TypeError", value |-> PyNone, posts |-> 0]
    ELSE IF ~HasAttr(c, "odm_url_runtime")
    THEN [kind |-> "raise", exc |-> "AttributeError", value |-> PyNone, posts |-> 0]
    ELSE IF answer.kind = "transport_error"
    THEN [kind |-> "ok", exc |-> "", value |-> ErrorDict, posts |-> 1]
    ELSE IF answer.status = 200
    THEN [kind |-> "ok", exc |-> "", value |-> answer.body.value, posts |-> 1]
    ELSE [kind |-> "ok", exc |-> "", value |-> PyNone, posts |-> 1]

-----------------------------------------------------------------------------
(* ExecutionToolTrace and DiskTraceStorage *)

\* bool(v) of a value the runtime returned
TruthyValue(v) ==
    /\ v.type # "NoneType"
    /\ v.type = "str" => v.text # ""
    /\ v.type = "dict" => v.items # <<>>

\* ExecutionToolTrace.__init__ at time t (in half seconds): the timestamp is
\* the time, the id is "<tool_name>_<seconds>_<decision_id or ''>"
ExecutionToolTrace(tool_name, ruleset_path, inputs, results, decision_id, decision_trace, t) ==
    [ tool_name |-> tool_name, ruleset_path |-> ruleset_path, inputs |-> inputs,
      results |-> results, decision_id |-> decision_id, decision_trace |-> decision_trace,
      timestamp |-> t,
      id |-> << tool_name, t \div 2,
                IF TruthyValue(decision_id) THEN decision_id.text ELSE "" >> ]

IsAlnum(c) ==
    \/ IsUpper(c)
    \/ \E i \in 1..Len(LowerCase) : LowerCase[i] = c
    \/ IsDigit(c)

\* line 142: every character that is not alphanumeric, '_' or '-' becomes '_'
SafeText(str) ==
    [i \in 1..Len(str) |-> IF IsAlnum(str[i]) \/ str[i] \in {"_", "-"} THEN str[i] ELSE "_"]

SafeId(id) == << SafeText(id[1]), id[2], id[3] >>

\* sorted(trace_index.items(), key=timestamp): stable, oldest first
RECURSIVE SortedByTimestamp(_)
SortedByTimestamp(entries) ==
    IF entries = <<>> THEN <<>>
    ELSE LET rest == SortedByTimestamp(SubSeq(entries, 1, Len(entries) - 1))
             e    == entries[Len(entries)]
             k    == Cardinality({ i \in 1..Len(rest) : rest[i].value.timestamp <= e.value.timestamp })
         IN  SubSeq(rest, 1, k) \o <<e>> \o SubSeq(rest, k + 1, Len(rest))

\* _enforce_max_traces: the index and the files left. When os.remove raises
\* (remove_ok false) the except clause of lines 181-182 logs a warning and
\* the entry stays in the index.
EnforceMaxTraces(index, files, max_traces, remove_ok) ==
    IF Len(index) <= max_traces THEN [index |-> index, files |-> files]
    ELSE LET sorted_traces == SortedByTimestamp(index)
             removed == IF remove_ok
                        THEN { sorted_traces[i].key :
                                  i \in 1..(Len(sorted_traces) - max_traces) }
                        ELSE {}
         IN  [ index |-> SelectSeq(index, LAMBDA e : e.key \notin removed),
               files |-> { f \in files : f.id \notin removed } ]

\* DiskTraceStorage.add: the file is written, the index entry set, the
\* maximum enforced
StorageAdd(index, files, trace, max_traces, remove_ok) ==
    LET safe_id == SafeId(trace.id)
        written == { f \in files : f.id # safe_id } \cup { [id |-> safe_id, content |-> trace] }
        indexed == DictSet(index, safe_id,
                           [timestamp |-> trace.timestamp, tool_name |-> trace.tool_name])
    IN  EnforceMaxTraces(indexed, written, max_traces, remove_ok)

-----------------------------------------------------------------------------
(* DecisionMCPServer.list_tools and call_tool *)

\* list_tools and call_tool calls made on one server
MaxCalls == 2
\* the trace_maxsize the server is configured with
TraceMaxSize == 2

\* os.remove is called only by an add that finds the index full
RemovalOutcomes(index) == IF Len(index) >= TraceMaxSize THEN BOOLEAN ELSE {TRUE}

\* the keyword arguments of lines 73-74, 93-94 and 187-188
ServerManagerKeywords == {"console_credentials", "runtime_credentials"}

\* the text call_tool returns: json.dumps(result), or str(result)
JsonDumps(v) == [format |-> "json.dumps", of |-> v]
PyStr(v)     == [format |-> "str", of |-> v]

\* json.loads of a trace string
JsonLoadsTrace(v) ==
    IF v = TraceJsonString THEN [ok |-> TRUE, value |-> TraceDict]
    ELSE [ok |-> FALSE, value |-> PyNone]

\* lines 114-125
NormalizeTrace(trace_value) ==
    IF trace_value.type = "dict" THEN trace_value
    ELSE IF trace_value.type = "str"
    THEN IF JsonLoadsTrace(trace_value).ok
         THEN JsonLoadsTrace(trace_value).value
         ELSE PyDict(<< Item("raw_trace", trace_value) >>)
    ELSE PyDict(<< Item("value", JStr(trace_value.text)) >>)

\* line 110
StripId(its) == DictDel(its, "__DecisionID__")

\* lines 103-132: what is left of the result, the two extracted values and
\* the text
PostProcess(result) ==
    IF result.type = "dict"
    THEN LET has_id    == DictGet(result.items, "__DecisionID__").type # "NoneType"
             after_id  == IF has_id THEN StripId(result.items) ELSE result.items
             has_trace == DictGet(after_id, "__decisionTrace__").type # "NoneType"
             left      == IF has_trace THEN DictDel(after_id, "__decisionTrace__") ELSE after_id
         IN  [ result         |-> PyDict(left),
               decision_id    |-> IF has_id THEN DictGet(result.items, "__DecisionID__") ELSE PyNone,
               decision_trace |-> IF has_trace
                                  THEN NormalizeTrace(DictGet(after_id, "__decisionTrace__"))
                                  ELSE PyNone,
               response_text  |-> JsonDumps(PyDict(left)) ]
    ELSE [ result |-> result, decision_id |-> PyNone, decision_trace |-> PyNone,
           response_text |-> PyStr(result) ]

\* mutant: a name is looked up only when the registry is empty
UnknownToolWhenEmpty(repo, name) == repo = <<>>

\* line 86: self.repository.get(name) is None
UnknownTool(repo, name) == ~HasKey(repo, name)

\* self.repository[name] of a registered name (KeyError otherwise)
RepositoryGet(repo, name) ==
    repo[CHOOSE i \in 1..Len(repo) : repo[i].key = name].value

NotCalled == [kind |-> "not_called"]

\* the state a call leaves behind and its outcome
Outcome(res, mgr, repo, index, files, posts) ==
    [ result |-> res, manager |-> mgr, repository |-> repo, trace_index |-> index,
      trace_files |-> files, posts |-> posts ]

\* call_tool raised exc after sending posts decision requests
CallRaises(exc, name, arguments, answer, posts) ==
    [ kind |-> "raise", exc |-> exc, name |-> name, arguments |-> arguments,
      answer |-> answer, posts |-> posts, text |-> PyStr(PyNone),
      decision_id |-> PyNone, decision_trace |-> PyNone, stored |-> FALSE,
      seq |-> callCount + 1 ]

\* call_tool returned the text of pp
CallReturns(pp, name, arguments, answer, stored) ==
    [ kind |-> "text", exc |-> "", name |-> name, arguments |-> arguments,
      answer |-> answer, posts |-> 1, text |-> pp.response_text,
      decision_id |-> pp.decision_id, decision_trace |-> pp.decision_trace,
      stored |-> stored, seq |-> callCount + 1 ]

\* call_tool(name, arguments) at time t, the runtime answering answer
call_tool(name, arguments, answer, t, remove_ok) ==
    IF UnknownTool(repository, name)
    THEN Outcome(CallRaises("ValueError: Unknown tool", name, arguments, answer, 0),
                 manager, repository, trace_index, trace_files, 0)
    ELSE LET made == IF manager.exists
                     THEN [kind |-> "ok", exc |-> "", manager |-> manager]
                     ELSE NewManager(ServerManagerKeywords, ManagerCredentials)
         IN
         IF made.kind = "raise"
         THEN Outcome(CallRaises(made.exc, name, arguments, answer, 0),
                      manager, repository, trace_index, trace_files, 0)
         ELSE IF ~HasKey(repository, name)
         THEN Outcome(CallRaises("KeyError", name, arguments, answer, 0),
                      made.manager, repository, trace_index, trace_files, 0)
         ELSE
         LET rulesetPath == RepositoryGet(repository, name).rulesetPath
             invoked == invokeDecisionService(made.manager.credentials, arguments, answer)
         IN
         IF invoked.kind = "raise"
         THEN Outcome(CallRaises(invoked.exc, name, arguments, answer, invoked.posts),
                      made.manager, repository, trace_index, trace_files, invoked.posts)
         ELSE
         LET pp == PostProcess(invoked.value) IN
         IF trace_enable
         THEN LET trace == ExecutionToolTrace(name, rulesetPath,
                               IF TruthyValue(arguments) THEN arguments ELSE PyDict(<<>>),
                               pp.result, pp.decision_id, pp.decision_trace, t)
                  kept == StorageAdd(trace_index, trace_files, trace, TraceMaxSize, remove_ok)
              IN  Outcome(CallReturns(pp, name, arguments, answer, TRUE),
                          made.manager, repository, kept.index, kept.files, invoked.posts)
         ELSE Outcome(CallReturns(pp, name, arguments, answer, FALSE),
                      made.manager, repository, trace_index, trace_files, invoked.posts)

\* the names and arguments the model calls tools with
RegisteredName == Str3("t", "_", "1")
CallNames     == { RegisteredName, Str3("n", "o", "p") }
CallArguments == { PyNone, PyDict(<< Item("input", JStr("v")) >>) }

CallTool ==
    /\ callCount < MaxCalls
    /\ \E name \in CallNames, arguments \in CallArguments,
          answer \in DecisionAnswers, elapsed \in {1, 2},
          remove_ok \in RemovalOutcomes(trace_index) :
          LET out == call_tool(name, arguments, answer, now + elapsed, remove_ok) IN
          /\ callResult' = out.result
          /\ manager' = out.manager
          /\ repository' = out.repository
          /\ trace_index' = out.trace_index
          /\ trace_files' = out.trace_files
          /\ runtimePosts' = runtimePosts + out.posts
          /\ now' = now + elapsed
    /\ callCount' = callCount + 1
    /\ UNCHANGED <<trace_enable, listResult, credVars, catVars, toolVars, schemaVars,
                   resolveVars, storeVars, sessVars>>

\* lines 79-82: the registry after the descriptors are registered in order
RECURSIVE Register(_, _)
Register(repo, extractedTools) ==
    IF extractedTools = <<>> THEN repo
    ELSE Register(DictSet(repo, Head(extractedTools).tool_name, Head(extractedTools)),
                  Tail(extractedTools))

ListRaises(exc, answer, fetched) ==
    [kind |-> "raise", exc |-> exc, tools |-> <<>>, answer |-> answer, fetched |-> fetched,
     seq |-> callCount + 1]

\* list_tools, the console answering answer and the runtime openapi
list_tools(answer, openapi) ==
    LET made == IF manager.exists
                THEN [kind |-> "ok", exc |-> "", manager |-> manager]
                ELSE NewManager(ServerManagerKeywords, ManagerCredentials)
    IN
    IF made.kind = "raise"
    THEN Outcome(ListRaises(made.exc, answer, "not_fetched"),
                 manager, repository, trace_index, trace_files, 0)
    ELSE
    LET rulesets == fetch_rulesets(answer)
        fetched  == IF rulesets.is_none THEN "None" ELSE "dict"
        extractedTools == generate_tools_format(made.manager.credentials, rulesets, openapi)
    IN
    IF extractedTools.kind = "raise"
    THEN Outcome(ListRaises(extractedTools.exc, answer, fetched),
                 made.manager, repository, trace_index, trace_files, 0)
    ELSE Outcome([ kind |-> "tools", exc |-> "",
                   tools |-> [i \in 1..Len(extractedTools.tools) |->
                                 extractedTools.tools[i].tool_description],
                   answer |-> answer, fetched |-> fetched, seq |-> callCount + 1 ],
                 made.manager, Register(repository, extractedTools.tools),
                 trace_index, trace_files, 0)

\* the answers of the runtime to the OpenAPI request of a listed ruleset
ListOpenApiAnswers == { TransportError, Answer(200, SchemaBody(Schema({"name"}, {"name"}))) }

\* list_tools does not read the clock
ListTools ==
    /\ callCount < MaxCalls
    /\ \E answer \in CatalogAnswers, openapi \in ListOpenApiAnswers :
          LET out == list_tools(answer, openapi) IN
          /\ listResult' = out.result
          /\ manager' = out.manager
          /\ repository' = out.repository
    /\ callCount' = callCount + 1
    /\ UNCHANGED <<now, trace_enable, trace_index, trace_files, runtimePosts, callResult,
                   credVars, catVars, toolVars, schemaVars, resolveVars, storeVars, sessVars>>

\* a manager as DecisionServerManager(credentials) builds it
InstalledManagers ==
    { NewManager({"credentials"}, c).manager : c \in {ManagerCredentials, RuntimeCredentials} }

\* a server after __init__ (lines 21-45); manager and repository are plain
\* attributes, which a caller may set before the first request
ServerInit ==
    /\ manager \in { [exists |-> FALSE] } \cup InstalledManagers
    /\ repository \in { <<>>, << Item(RegisteredName, [rulesetPath |-> "/app/1.0/rs"]) >> }
    /\ trace_enable \in BOOLEAN
    /\ trace_index = <<>>
    /\ trace_files = {}
    /\ now = 0
    /\ runtimePosts = 0
    /\ callCount = 0
    /\ callResult = NotCalled
    /\ listResult = NotCalled

ServerStart ==
    ServerInit /\ CredIdle /\ CatIdle /\ ToolIdle /\ SchemaIdle /\ ResolveIdle /\ StoreIdle /\ SessIdle

SpecServer ==
    /\ ServerStart
    /\ [][CallTool \/ ListTools]_vars

-----------------------------------------------------------------------------
(* Properties of list_tools and call_tool *)

ListCalled == listResult.kind # "not_called"
ToolCalled == callResult.kind # "not_called"

\* the catalog GET ended in a transport error, a status that is not 2xx, or
\* a body that is not JSON
CatalogFetchFailed(answer) ==
    \/ answer.kind = "transport_error"
    \/ answer.kind = "response" /\ (answer.status >= 300 \/ ~answer.body.json)

\* C16 (as stated): when the catalog GET fails, fetch_rulesets returns None
\* without raising and the list_tools call that triggered it returns an
\* empty tool list without raising.
C16_FailedFetchListsNothing ==
    (ListCalled /\ listResult.fetched = "None" /\ CatalogFetchFailed(listResult.answer)) =>
        /\ listResult.kind = "tools"
        /\ listResult.tools = <<>>

\* list_tools ran on a server with a manager while the console answered 404
C16_Witness ==
    /\ ListCalled /\ manager.exists
    /\ listResult.fetched = "None"
    /\ listResult.answer = Answer(404, MalformedBody)

\* the runtime answered the decision request of the last call_tool with
\* HTTP 200 and a JSON object
Answered200WithObject ==
    /\ ToolCalled /\ callResult.posts = 1
    /\ callResult.answer.kind = "response" /\ callResult.answer.status = 200
    /\ callResult.answer.body.value.type = "dict"

ResponseItems == callResult.answer.body.value.items

BookkeepingKeys == {"__DecisionID__", "__decisionTrace__"}

\* C17 (as stated): for every 200 response that contains a __DecisionID__
\* field the invocation yields the decision ID as a separate value and a
\* result body without the __DecisionID__ key, every other key of the
\* response (the trace field of C19 aside) being left as it was.
C17_DecisionIdSeparated ==
    (Answered200WithObject /\ HasKey(ResponseItems, "__DecisionID__")) =>
        /\ callResult.kind = "text"
        /\ callResult.text.format = "json.dumps"
        /\ callResult.decision_id = DictGet(ResponseItems, "__DecisionID__")
        /\ ~HasKey(callResult.text.of.items, "__DecisionID__")
        /\ \A i \in 1..Len(ResponseItems) :
              ResponseItems[i].key \notin BookkeepingKeys =>
                 \E j \in 1..Len(callResult.text.of.items) :
                     callResult.text.of.items[j] = ResponseItems[i]
        /\ \A j \in 1..Len(callResult.text.of.items) :
              \E i \in 1..Len(ResponseItems) : ResponseItems[i] = callResult.text.of.items[j]

\* a 200 response with a decision ID was post-processed
C17_Witness ==
    /\ Answered200WithObject
    /\ HasKey(ResponseItems, "__DecisionID__")
    /\ callResult.kind = "text"

\* C18 (as stated): a decision request that the runtime answers with a
\* status other than 200, or that fails in transport, ends call_tool with an
\* error; no text result is returned.
C18_FailedInvocationRaises ==
    (ToolCalled /\ callResult.posts = 1
        /\ \/ callResult.answer.kind = "transport_error"
           \/ callResult.answer.kind = "response" /\ callResult.answer.status # 200) =>
        callResult.kind = "raise"

\* a decision request was sent and answered with status 500
C18_Witness ==
    /\ ToolCalled /\ callResult.posts = 1
    /\ callResult.answer = Answer(500, MalformedBody)

\* the trace value the claim describes for a trace field of each type
ClaimedTrace(trace_value) ==
    IF trace_value.type = "dict" THEN trace_value
    ELSE IF trace_value = TraceJsonString THEN TraceDict
    ELSE IF trace_value.type = "str" THEN PyDict(<< Item("raw_trace", trace_value) >>)
    ELSE PyDict(<< Item("value", JStr(trace_value.text)) >>)

\* C19 (as stated): for every 200 response carrying a decision-trace field
\* the trace is taken out of the result body and normalized by its type: a
\* dict as it is, a JSON string parsed, another string in a raw-string
\* wrapper, any other type in a wrapper of its string form.
C19_TraceExtracted ==
    (Answered200WithObject /\ HasKey(ResponseItems, "__decisionTrace__")) =>
        /\ callResult.kind = "text"
        /\ callResult.decision_trace = ClaimedTrace(DictGet(ResponseItems, "__decisionTrace__"))
        /\ ~HasKey(callResult.text.of.items, "__decisionTrace__")

\* a 200 response with a trace that is a string but not JSON was post-processed
C19_Witness ==
    /\ Answered200WithObject
    /\ HasKey(ResponseItems, "__decisionTrace__")
    /\ DictGet(ResponseItems, "__decisionTrace__") = TraceRawString
    /\ callResult.kind = "text"

\* C20: a call_tool with a name that is not a key of the registry raises
\* "Unknown tool" and changes nothing: no decision request is sent, no trace
\* is stored, the registry and the manager stay as they were.
C20_UnknownToolRejected ==
    [][ ( /\ callCount' = callCount + 1
          /\ callResult'.kind # "not_called"
          /\ callResult'.seq = callCount'
          /\ ~HasKey(repository, callResult'.name) ) =>
        ( /\ callResult'.kind = "raise"
          /\ callResult'.exc = "ValueError: Unknown tool"
          /\ runtimePosts' = runtimePosts
          /\ trace_index' = trace_index
          /\ trace_files' = trace_files
          /\ repository' = repository
          /\ manager' = manager ) ]_vars

\* a name that is not registered was called on a server that has a tool
\* registered, a manager and tracing enabled
C20_Witness ==
    /\ ToolCalled /\ callResult.seq = callCount
    /\ ~HasKey(repository, callResult.name)
    /\ repository # <<>> /\ manager.exists /\ trace_enable
    /\ callResult.exc = "ValueError: Unknown tool"

\* the keys of a dict kept as a sequence of entries
KeySet(its) == { its[i].key : i \in 1..Len(its) }

\* the tool names of the list a list_tools call returned
ReturnedNames == { listResult.tools[i].name : i \in 1..Len(listResult.tools) }

\* the last request the server handled was a list_tools that returned
LastListReturned ==
    /\ ListCalled /\ listResult.seq = callCount
    /\ listResult.kind = "tools"

-----------------------------------------------------------------------------
(* Ties and key collisions in the catalog resolver *)

\* data[i] is eligible and no eligible record of its group has a higher sort key
TopOfGroup(i) ==
    /\ EnabledAndExposed(data[i])
    /\ \A j \in 1..Len(data) :
          (GroupOf(data[j]) = GroupOf(data[i]) /\ EnabledAndExposed(data[j]))
              => ~SortKeyLess(data[i], data[j])

\* data[i] and data[j] are eligible records of one group with equal sort keys
Tied(i, j) ==
    /\ GroupOf(data[i]) = GroupOf(data[j])
    /\ EnabledAndExposed(data[i]) /\ EnabledAndExposed(data[j])
    /\ ~SortKeyLess(data[i], data[j]) /\ ~SortKeyLess(data[j], data[i])

\* C27 (as stated): of the eligible records of a group that tie on
\* (application version, ruleset version) at the top, the one listed last
\* is the selected one.
C27_LastOfTiedWins ==
    extractDone =>
        \A r \in SelectedValues :
            \E i \in 1..Len(data) :
                /\ data[i] = r /\ TopOfGroup(i)
                /\ \A j \in (i + 1)..Len(data) : ~Tied(i, j)

\* C27 (amended): of the eligible records of a group that tie on
\* (application version, ruleset version) at the top, the one listed first
\* is the selected one.
C27_FirstOfTiedWins ==
    extractDone =>
        \A r \in SelectedValues :
            \E i \in 1..Len(data) :
                /\ data[i] = r /\ TopOfGroup(i)
                /\ \A j \in 1..(i - 1) : ~Tied(i, j)

\* two different eligible records of one group tie and the first was selected
C27_Witness ==
    /\ extractDone
    /\ Len(data) = 2 /\ Tied(1, 2) /\ data[1] # data[2]
    /\ SelectedValues = {data[1]}

\* the groups of the listing that have an eligible record
EligibleGroups == { GroupOf(r) : r \in { q \in ListedRecords : EnabledAndExposed(q) } }

\* C29 (as stated): the result has one entry for every group that has an
\* eligible record; different groups never share an entry.
C29_OneEntryPerGroup ==
    extractDone => Len(selected) = Cardinality(EligibleGroups)

\* eligible records of the groups ("foo", "bar1") and ("foob", "ar1") were listed
C29_Witness ==
    /\ extractDone
    /\ EligibleGroups = { <<"foo", "bar1">>, <<"foob", "ar1">> }

-----------------------------------------------------------------------------
(* DiskTraceStorage *)

\* adds made to one storage
MaxAdds == 3

\* DiskTraceStorage.get: the trace of the file the index names, None for an
\* id that is not in the index or a file that cannot be read
StorageGet(index, files, trace_id) ==
    IF ~HasKey(index, trace_id) THEN PyNone
    ELSE IF \E f \in files : f.id = trace_id
    THEN (CHOOSE f \in files : f.id = trace_id).content
    ELSE PyNone

\* DiskTraceStorage.get_all_metadata
get_all_metadata(index) ==
    [i \in 1..Len(index) |->
        [id |-> index[i].key, tool_name |-> index[i].value.tool_name,
         timestamp |-> index[i].value.timestamp]]

\* a trace of the registered tool made at time t
TraceAt(decision_id, t) ==
    ExecutionToolTrace(RegisteredName, "/app/1.0/rs", PyDict(<<>>),
                       PyDict(<< Item("result", JStr("ok")) >>), decision_id, PyNone, t)

\* DiskTraceStorage.add of a trace made elapsed half seconds after the last
StorageAddTrace ==
    /\ storeAdds < MaxAdds
    /\ \E decision_id \in DecisionIds, elapsed \in {1, 2},
          remove_ok \in RemovalOutcomes(trace_index) :
          LET kept == StorageAdd(trace_index, trace_files, TraceAt(decision_id, now + elapsed),
                                 TraceMaxSize, remove_ok)
          IN  /\ trace_index' = kept.index
              /\ trace_files' = kept.files
              /\ now' = now + elapsed
    /\ storeAdds' = storeAdds + 1
    /\ UNCHANGED <<manager, repository, trace_enable, runtimePosts, callCount, callResult,
                   listResult, credVars, catVars, toolVars, schemaVars, resolveVars, sessVars>>

\* DiskTraceStorage.clear: every file whose removal succeeds is deleted, the
\* index is emptied
StorageClear ==
    /\ trace_index # <<>>
    /\ \E remove_ok \in BOOLEAN :
          trace_files' = IF remove_ok THEN {} ELSE trace_files
    /\ trace_index' = <<>>
    /\ UNCHANGED <<now, storeAdds, manager, repository, trace_enable, runtimePosts,
                   callCount, callResult, listResult, credVars, catVars, toolVars,
                   schemaVars, resolveVars, sessVars>>

\* a storage made on an empty directory, or on one that holds a trace of an
\* earlier run (lines 110-128)
StoreInit ==
    /\ \E earlier \in { TraceAt(PyNone, 0) } :
          \/ trace_index = <<>> /\ trace_files = {}
          \/ /\ trace_index = DictSet(<<>>, SafeId(earlier.id),
                                       [timestamp |-> 0, tool_name |-> earlier.tool_name])
             /\ trace_files = { [id |-> SafeId(earlier.id), content |-> earlier] }
    /\ trace_enable = TRUE
    /\ manager = [exists |-> FALSE]
    /\ repository = <<>>
    /\ now = 0
    /\ runtimePosts = 0
    /\ callCount = 0
    /\ callResult = NotCalled
    /\ listResult = NotCalled
    /\ storeAdds = 0

StoreStart == StoreInit /\ CredIdle /\ CatIdle /\ ToolIdle /\ SchemaIdle /\ ResolveIdle /\ SessIdle

SpecStore ==
    /\ StoreStart
    /\ [][StorageAddTrace \/ StorageClear]_vars

\* the index entries of an index, as a set
IndexEntries(index) == { index[i] : i \in 1..Len(index) }

\* C24 (as stated): after every add the index and the directory hold at
\* most max_traces traces; the entries an add removes are older than every
\* entry it keeps, and every entry it keeps can be retrieved.
C24_StoreBounded ==
    [][ storeAdds' = storeAdds + 1 =>
          /\ Len(trace_index') <= TraceMaxSize
          /\ Cardinality(trace_files') <= TraceMaxSize
          /\ \A gone \in IndexEntries(trace_index) :
                ~HasKey(trace_index', gone.key) =>
                    \A kept \in IndexEntries(trace_index') :
                        gone.value.timestamp <= kept.value.timestamp
          /\ \A kept \in IndexEntries(trace_index') :
                StorageGet(trace_index', trace_files', kept.key) # PyNone ]_vars

\* an add found the index full and left more than max_traces entries
C24_Witness ==
    /\ storeAdds > TraceMaxSize
    /\ Len(trace_index) > TraceMaxSize
    /\ Cardinality(trace_files) > TraceMaxSize

-----------------------------------------------------------------------------
(* DecisionMCPServer.list_execution_traces and get_execution_trace *)

\* list_execution_traces: one resource for every entry of the index, none
\* when tracing is disabled
list_execution_traces(enable, index) ==
    IF ~enable THEN <<>>
    ELSE [i \in 1..Len(index) |-> [uri |-> get_all_metadata(index)[i].id,
                                   name |-> get_all_metadata(index)[i].tool_name]]

\* get_execution_trace(trace_id)
get_execution_trace(enable, index, files, trace_id) ==
    IF ~enable THEN PyNone ELSE StorageGet(index, files, trace_id)

\* the ids a trace of the model can have
TraceIds ==
    { SafeId(TraceAt(d, t).id) : d \in DecisionIds, t \in 0..(2 * (MaxCalls + 1)) }

\* the step is a call_tool
CallToolStep ==
    /\ callCount' = callCount + 1
    /\ callResult'.kind # "not_called"
    /\ callResult'.seq = callCount'

\* C25 (as stated): with tracing disabled a call_tool records nothing, the
\* trace listing stays empty and no id has a trace; with tracing enabled
\* every call_tool that returns a result adds one trace to the store.
C25_TraceIffEnabled ==
    [][ CallToolStep =>
          IF ~trace_enable
          THEN /\ ~callResult'.stored
               /\ trace_index' = <<>> /\ trace_files' = {}
               /\ list_execution_traces(trace_enable', trace_index') = <<>>
               /\ \A id \in TraceIds :
                     get_execution_trace(trace_enable', trace_index', trace_files', id) = PyNone
          ELSE callResult'.kind = "text" =>
                  /\ callResult'.stored
                  /\ \E id \in KeySet(trace_index') \ KeySet(trace_index) :
                        get_execution_trace(trace_enable', trace_index', trace_files', id) # PyNone
      ]_vars

\* with tracing enabled two calls returned a result and each added a trace
C25_Witness ==
    /\ trace_enable /\ callCount = 2
    /\ callResult.kind = "text" /\ callResult.stored
    /\ Len(trace_index) = 2

-----------------------------------------------------------------------------
(* Tool names shared by several rulesets *)

\* the rulesets list_tools builds tools from, in build order
BuildOrder == fetch_rulesets(listResult.answer).entries

\* the catalog the last list_tools read has two selected rulesets whose
\* tool names are equal
SharedNameListed ==
    /\ ListCalled /\ listResult.seq = callCount
    /\ listResult.fetched = "dict"
    /\ \E i, j \in 1..Len(BuildOrder) :
          i < j /\ ToolName(BuildOrder[i].value) = ToolName(BuildOrder[j].value)

\* C28 (as stated): when several selected rulesets get the same tool name,
\* list_tools leaves the registry mapping the name to the descriptor of the
\* last of them in build order, whose ruleset path call_tool then invokes;
\* the earlier ones cannot be reached through the registry.
C28_LastRegisteredWins ==
    SharedNameListed =>
        /\ listResult.kind = "tools"
        /\ \A i \in 1..Len(BuildOrder) :
              (\A j \in (i + 1)..Len(BuildOrder) :
                    ToolName(BuildOrder[j].value) # ToolName(BuildOrder[i].value))
              => /\ HasKey(repository, ToolName(BuildOrder[i].value))
                 /\ RepositoryGet(repository, ToolName(BuildOrder[i].value)).rulesetPath
                        = "/" \o BuildOrder[i].value.id

\* list_tools read a catalog with two rulesets named "a_b" on a server that
\* has a manager
C28_Witness ==
    /\ SharedNameListed
    /\ manager.exists
    /\ listResult.answer = Answer(200, ListingBody(SameNameCatalog))

-----------------------------------------------------------------------------
(* Token requests *)

\* a profile on which get_auth takes the OpenID branch with the fields that
\* branch requires
OAuthProfile(c) ==
    /\ c.exists
    /\ ~Truthy(c.zenapikey)
    /\ Truthy(c.client_id) /\ Truthy(c.token_url)
    /\ Truthy(c.client_secret) \/ Truthy(c.pkjwt_cert_path)

\* C26 (as stated): every get_auth call on an OAuth profile sends exactly
\* one token request, so n calls send n requests.
C26_OnePostPerCall ==
    (AuthCalled /\ OAuthProfile(cred)) =>
        /\ Len(authRequests) = 1
        /\ tokenPosts = authCalls

\* C26 (amended): a get_auth call on an OAuth profile sends at most one
\* token request and never repeats one; on a client-secret profile every
\* call sends exactly one, so n calls send n; on a private-key-JWT profile a
\* call sends none only when it fails to build the signed assertion, and
\* then it raises.
C26_AtMostOnePostPerCall ==
    (AuthCalled /\ OAuthProfile(cred)) =>
        /\ Len(authRequests) <= 1
        /\ tokenPosts <= authCalls
        /\ OpenIdPath(cred) = "client_secret" =>
              Len(authRequests) = 1 /\ tokenPosts = authCalls
        /\ authRequests = <<>> =>
              /\ OpenIdPath(cred) = "pkjwt"
              /\ authResult.kind = "raise"
        /\ (authRequests # <<>> /\ ~authResponse.received) => authResult.kind = "raise"

\* of two get_auth calls on a private-key-JWT profile one sent a token
\* request and one sent none
C26_Witness ==
    /\ AuthCalled /\ OAuthProfile(cred)
    /\ OpenIdPath(cred) = "pkjwt"
    /\ authCalls = 2 /\ tokenPosts = 1

-----------------------------------------------------------------------------
(* Credentials.get_session and the requests of the DecisionServerManager *)

\* manager requests and cleanup calls of one run
MaxSessions == 3

\* steps of the clock in one run
MaxTicks == 2

\* 'exp': now + 3600 of the signed assertion; the lifetime of a token
TokenValidity == 3600

\* one log record: its level and the parts its message is put together from
LogRecord(level, parts) == [level |-> level, parts |-> parts]
LogText(t)       == [kind |-> "text", value |-> <<t>>]
LogValue(k, v)   == [kind |-> k, value |-> v]

\* the assertion jwt.encode signs at time t (lines 180-190, 223)
SignedJwt(c, t) ==
    [iss |-> c.client_id, sub |-> c.client_id, aud |-> c.token_url,
     iat |-> t, exp |-> t + TokenValidity]

\* the records get_auth hands to its logger: only the PKJWT block logs
\* (lines 217, 224, 225), once the certificate was read
AuthLog(c, env, t) ==
    IF /\ AuthBranch(c) = "openid"
       /\ Truthy(c.client_id) /\ Truthy(c.token_url)
       /\ OpenIdPath(c) = "pkjwt"
       /\ env.cert_ok
    THEN << LogRecord("debug", << LogText("Using calculated x5t from public certificate: "),
                                  LogValue("thumbprint", c.pkjwt_cert_path) >>),
            LogRecord("info",  << LogText("JWT token created successfully.") >>),
            LogRecord("debug", << LogText("msg encoded JWT "),
                                  LogValue("jwt", SignedJwt(c, t)) >>) >>
    ELSE <<>>

\* what writing the decrypted key can end in: the file is written, the file
\* cannot be created, or it is created and the write fails
TempOutcomes == {"written", "create_failed", "write_failed"}

\* the outcomes that can be told apart: nothing is written without a key
\* password
TempOutcomesOf(c) ==
    IF Truthy(c.mtls_cert_path) /\ Truthy(c.mtls_key_password)
    THEN TempOutcomes ELSE {"written"}

\* Credentials.mtls_cert_tuple with the next free file name: without a key
\* password the key file itself is used; with one, the decrypted key is
\* written to a NamedTemporaryFile(delete=False) whose name is kept in
\* mtls_unencrypted_key_path; an IOError becomes a ValueError
mtls_cert_tuple(c, temp, name) ==
    IF ~Truthy(c.mtls_key_password)
    THEN [kind |-> "ok", exc |-> "", files |-> {}, path_set |-> FALSE]
    ELSE IF temp = "create_failed"
    THEN [kind |-> "raise", exc |-> "ValueError", files |-> {}, path_set |-> FALSE]
    ELSE IF temp = "write_failed"
    THEN [kind |-> "raise", exc |-> "ValueError", files |-> {name}, path_set |-> FALSE]
    ELSE [kind |-> "ok", exc |-> "", files |-> {name}, path_set |-> TRUE]

\* Credentials.get_session at time t: the headers of get_auth become the
\* headers of the session (the default headers of a requests session carry
\* no credential and are left out), the client certificate is set, and the
\* session's headers are logged
get_session(c, env, temp, name, t) ==
    LET verify == LogRecord("info", << LogText("Verify SSL: ") >>)
        auth   == get_auth(c, env)
        tuple  == IF Truthy(c.mtls_cert_path)
                  THEN mtls_cert_tuple(c, temp, name)
                  ELSE [kind |-> "ok", exc |-> "", files |-> {}, path_set |-> FALSE]
    IN
    IF auth.result.kind = "raise"
    THEN [kind |-> "raise", exc |-> auth.result.exc, headers |-> BaseHeaders,
          files |-> {}, path_set |-> FALSE,
          log |-> <<verify>> \o AuthLog(c, env, t)]
    ELSE IF tuple.kind = "raise"
    THEN [kind |-> "raise", exc |-> tuple.exc, headers |-> auth.result.headers,
          files |-> tuple.files, path_set |-> FALSE,
          log |-> <<verify>> \o AuthLog(c, env, t)]
    ELSE [kind |-> "ok", exc |-> "", headers |-> auth.result.headers,
          files |-> tuple.files, path_set |-> tuple.path_set,
          log |-> <<verify>> \o AuthLog(c, env, t)
                  \o << LogRecord("debug", << LogText("Session created with URL: "),
                                              LogText(" and headers: "),
                                              LogValue("headers", auth.result.headers) >>) >>]

\* the object after a get_session call: line 311 sets the attribute
WithKeyPath(c, s, name) ==
    IF s.path_set
    THEN [a \in DOMAIN c \cup {"mtls_unencrypted_key_path"} |->
            IF a = "mtls_unencrypted_key_path" THEN name ELSE c[a]]
    ELSE c

\* requests merges the headers of a request over those of its session
MergeHeaders(session_headers, request_headers) ==
    [h \in DOMAIN session_headers \cup DOMAIN request_headers |->
        IF h \in DOMAIN request_headers THEN request_headers[h] ELSE session_headers[h]]

\* line 313 (header names are case-insensitive)
InvokeHeaders ==
    [h \in {"Content-Type", "accept"} |->
        IF h = "accept" THEN <<"text/plain">> ELSE <<"application/json">>]

\* the Authorization value of a header set, <<>> without one
AuthorizationOf(hs) ==
    IF "Authorization" \in DOMAIN hs THEN hs["Authorization"] ELSE <<>>

\* the exceptions of get_auth that are a requests.exceptions.RequestException
IsRequestException(exc) == exc \in {"ConnectionError", "HTTPError", "JSONDecodeError"}

\* the token endpoint as a session meets it; a token it issues at time t is
\* named by t
SessionAuthEnvs(t) ==
    { [cert_ok |-> ok[1], transport_ok |-> ok[2], status |-> ok[3],
       body |-> "object_with_access_token", token |-> t] :
         ok \in { <<TRUE, TRUE, 200>>, <<TRUE, TRUE, 401>>, <<FALSE, TRUE, 200>>,
                  <<TRUE, FALSE, 200>> } }

\* the record of a manager operation: how it ended (returned is the type of
\* the value it returned), whether its request was
\* sent and with which Authorization value, and the Authorization value of
\* the session made for it
SessionRecord(op, kind, exc, returned, sent, hs, s, call, env, temp, t) ==
    [op |-> op, kind |-> kind, exc |-> exc, returned |-> returned, sent |-> sent,
     authorization |-> IF sent THEN AuthorizationOf(hs) ELSE <<>>,
     session_authorization |-> IF s.kind = "ok" THEN AuthorizationOf(s.headers) ELSE <<>>,
     session |-> s.kind = "ok", call |-> call, env |-> env, temp |-> temp, at |-> t]

\* no session was made
NoSession == [kind |-> "none", headers |-> BaseHeaders]

\* DecisionServerManager.__init__ (line 68): the headers of one get_auth
\* call are kept; an exception of get_auth leaves no manager
SessionNewManager ==
    /\ sessCred.exists
    /\ ~mgrHeaders.set
    /\ \E env \in SessionAuthEnvs(sessClock) :
          LET r == get_auth(sessCred, env).result IN
          /\ mgrHeaders' = IF r.kind = "raise" THEN [set |-> FALSE]
                           ELSE [set |-> TRUE, headers |-> r.headers]
          /\ sessLog' = AuthLog(sessCred, env, sessClock)
          /\ sessRequest' = SessionRecord("__init__", IF r.kind = "raise" THEN "raise" ELSE "ok",
                                          r.exc, "None", FALSE, BaseHeaders, NoSession,
                                          "get_auth",
                                          env, "written", sessClock)
    /\ UNCHANGED <<sessCred, tempFiles, tempCreated, sessClock, sessTicks, sessOps,
                   credVars, catVars, toolVars, schemaVars, resolveVars, serverVars,
                   storeVars>>

\* what a manager request leaves behind: the files written, the attribute
\* set, the records logged
SessionEffects(s, name) ==
    /\ sessCred' = WithKeyPath(sessCred, s, name)
    /\ tempFiles' = tempFiles \cup s.files
    /\ tempCreated' = IF s.files = {} THEN tempCreated ELSE name
    /\ sessLog' = s.log
    /\ sessOps' = sessOps + 1
    /\ UNCHANGED <<mgrHeaders, sessClock, sessTicks, credVars, catVars, toolVars,
                   schemaVars, resolveVars, serverVars, storeVars>>

\* fetch_rulesets (lines 275-298): a session is made, the GET is sent with
\* headers=self.headers, a RequestException is logged and None returned; the
\* session is not closed and nothing is removed
SessionFetchRulesets ==
    /\ mgrHeaders.set
    /\ sessOps < MaxSessions
    /\ \E env \in SessionAuthEnvs(sessClock), temp \in TempOutcomesOf(sessCred),
          answer \in {TransportError, Answer(200, ListingBody(<<>>))} :
          LET name == tempCreated + 1
              s    == get_session(sessCred, env, temp, name, sessClock)
              hs   == MergeHeaders(s.headers, mgrHeaders.headers)
          IN
          /\ sessRequest' =
                IF s.kind = "raise"
                THEN SessionRecord("fetch_rulesets",
                                   IF IsRequestException(s.exc) THEN "ok" ELSE "raise",
                                   IF IsRequestException(s.exc) THEN "" ELSE s.exc,
                                   "None", FALSE, hs, s, "get_session", env, temp, sessClock)
                ELSE SessionRecord("fetch_rulesets", "ok", "",
                                   IF fetch_rulesets(answer).is_none THEN "None" ELSE "dict",
                                   TRUE, hs, s, "get_session", env, temp, sessClock)
          /\ SessionEffects(s, name)

\* get_ruleset_openapi (lines 188-216): line 190 reads odm_url_runtime before
\* the session is made; the GET is sent with headers=self.headers
SessionGetRulesetOpenapi ==
    /\ mgrHeaders.set
    /\ sessOps < MaxSessions
    /\ \E env \in SessionAuthEnvs(sessClock), temp \in TempOutcomesOf(sessCred),
          answer \in {TransportError, Answer(200, SchemaBody(Schema({"name"}, {"name"})))} :
          LET name == tempCreated + 1
              s    == get_session(sessCred, env, temp, name, sessClock)
              hs   == MergeHeaders(s.headers, mgrHeaders.headers)
              res  == get_ruleset_openapi(sessCred, [id |-> "/app/1.0/rs"], answer)
          IN
          IF ~HasAttr(sessCred, "odm_url_runtime")
          THEN /\ sessRequest' = SessionRecord("get_ruleset_openapi", "raise", "AttributeError",
                                               "None", FALSE, BaseHeaders, NoSession, "none", env,
                                               temp, sessClock)
               /\ sessLog' = <<>>
               /\ sessOps' = sessOps + 1
               /\ UNCHANGED <<sessCred, mgrHeaders, tempFiles, tempCreated, sessClock,
                              sessTicks, credVars, catVars, toolVars, schemaVars,
                              resolveVars, serverVars, storeVars>>
          ELSE /\ sessRequest' =
                     IF s.kind = "raise"
                     THEN SessionRecord("get_ruleset_openapi",
                                        IF IsRequestException(s.exc) THEN "ok" ELSE "raise",
                                        IF IsRequestException(s.exc) THEN "" ELSE s.exc,
                                        "None", FALSE, hs, s, "get_session", env, temp, sessClock)
                     ELSE SessionRecord("get_ruleset_openapi", res.kind, res.exc,
                                        IF res.value = NoSchema THEN "None" ELSE "dict",
                                        TRUE, hs, s, "get_session", env, temp, sessClock)
               /\ SessionEffects(s, name)

\* invokeDecisionService (lines 313-329): the session is made (line 319)
\* before line 320 reads odm_url_runtime; the POST is sent with the headers
\* of line 313, so its Authorization is the session's
SessionInvokeDecisionService ==
    /\ mgrHeaders.set
    /\ sessOps < MaxSessions
    /\ \E env \in SessionAuthEnvs(sessClock), temp \in TempOutcomesOf(sessCred),
          answer \in {TransportError, Answer(200, DecisionBody(PyDict(<<>>)))} :
          LET name == tempCreated + 1
              s    == get_session(sessCred, env, temp, name, sessClock)
              hs   == MergeHeaders(s.headers, InvokeHeaders)
              res  == invokeDecisionService(sessCred, PyDict(<<>>), answer)
          IN
          /\ sessRequest' =
                IF s.kind = "raise"
                THEN SessionRecord("invokeDecisionService",
                                   IF IsRequestException(s.exc) THEN "ok" ELSE "raise",
                                   IF IsRequestException(s.exc) THEN "" ELSE s.exc,
                                   IF IsRequestException(s.exc) THEN "dict" ELSE "None",
                                   FALSE, hs, s, "get_session", env, temp, sessClock)
                ELSE SessionRecord("invokeDecisionService", res.kind, res.exc,
                                   res.value.type, res.posts > 0, hs, s, "get_session", env, temp, sessClock)
          /\ SessionEffects(s, name)

\* Credentials.cleanup (lines 317-320): with a key password the file named by
\* mtls_unencrypted_key_path is removed; the attribute does not exist before
\* the first session, and the file may be gone already
SessionCleanup ==
    /\ sessCred.exists
    /\ sessOps < MaxSessions
    /\ LET has  == HasAttr(sessCred, "mtls_unencrypted_key_path")
           exc  == IF ~Truthy(sessCred.mtls_key_password) THEN ""
                   ELSE IF ~has THEN "AttributeError"
                   ELSE IF sessCred.mtls_unencrypted_key_path \notin tempFiles
                   THEN "FileNotFoundError"
                   ELSE ""
       IN
       /\ tempFiles' = IF Truthy(sessCred.mtls_key_password) /\ exc = ""
                       THEN tempFiles \ {sessCred.mtls_unencrypted_key_path}
                       ELSE tempFiles
       /\ sessRequest' = SessionRecord("cleanup", IF exc = "" THEN "ok" ELSE "raise", exc,
                                       "None", FALSE, BaseHeaders, NoSession, "none",
                                       CHOOSE e \in SessionAuthEnvs(sessClock) : TRUE,
                                       "written", sessClock)
    /\ sessLog' = <<>>
    /\ sessOps' = sessOps + 1
    /\ UNCHANGED <<sessCred, mgrHeaders, tempCreated, sessClock, sessTicks, credVars,
                   catVars, toolVars, schemaVars, resolveVars, serverVars, storeVars>>

\* time passes: a second, or the lifetime of a token
SessionTick ==
    /\ sessTicks < MaxTicks
    /\ \E d \in {1, TokenValidity} : sessClock' = sessClock + d
    /\ sessTicks' = sessTicks + 1
    /\ UNCHANGED <<sessCred, mgrHeaders, tempFiles, tempCreated, sessOps, sessRequest,
                   sessLog, credVars, catVars, toolVars, schemaVars, resolveVars,
                   serverVars, storeVars>>

\* the constructor arguments of the profiles a manager is given: basic
\* authentication with a password-protected mTLS key, with a plain mTLS key,
\* a client secret, a private-key JWT, and an API key
SessionArgs ==
    LET none == [ called |-> TRUE, odm_url_valid |-> TRUE, username |-> NoneV,
                  password |-> NoneV, zenapikey |-> NoneV, client_id |-> NoneV,
                  client_secret |-> NoneV, token_url |-> NoneV, pkjwt_cert_path |-> NoneV,
                  pkjwt_key_path |-> NoneV, pkjwt_key_password |-> NoneV,
                  mtls_cert_path |-> NoneV, mtls_key_path |-> NoneV,
                  mtls_key_password |-> NoneV ]
        mtls == [none EXCEPT !.mtls_cert_path = "mtls.crt", !.mtls_key_path = "mtls.key"]
    IN
    { [mtls EXCEPT !.username = "user", !.password = "pass", !.mtls_key_password = "pw"],
      [mtls EXCEPT !.username = "user", !.password = "pass"],
      [none EXCEPT !.client_id = "cid", !.client_secret = "secret",
                   !.token_url = "https://op/token"],
      [mtls EXCEPT !.client_id = "cid", !.token_url = "https://op/token",
                   !.pkjwt_cert_path = "pkjwt.crt", !.pkjwt_key_path = "pkjwt.key",
                   !.mtls_key_password = "pw"],
      [none EXCEPT !.username = "user", !.zenapikey = "key"] }

\* a Credentials object as __init__ leaves it, and one that also has the
\* runtime URL which lines 190, 192 and 320 read
SessionProfiles ==
    { CtorObject(a) : a \in { x \in SessionArgs : Truthy(x.client_secret) } }
    \cup { CtorObject(a) @@ ("odm_url_runtime" :> "http://runtime/DecisionService") :
             a \in SessionArgs }

SessInit ==
    /\ sessCred \in SessionProfiles
    /\ mgrHeaders = [set |-> FALSE]
    /\ tempFiles = {}
    /\ tempCreated = 0
    /\ sessClock = 0
    /\ sessTicks = 0
    /\ sessOps = 0
    /\ sessRequest = [op |-> "none"]
    /\ sessLog = <<>>

SessionStart ==
    SessInit /\ CredIdle /\ CatIdle /\ ToolIdle /\ SchemaIdle /\ ResolveIdle /\ ServerIdle
             /\ StoreIdle

SpecSession ==
    /\ SessionStart
    /\ [][SessionNewManager \/ SessionFetchRulesets \/ SessionGetRulesetOpenapi
          \/ SessionInvokeDecisionService \/ SessionCleanup \/ SessionTick]_vars

-----------------------------------------------------------------------------
(* Properties of sessions *)

ManagerRequests == {"fetch_rulesets", "get_ruleset_openapi", "invokeDecisionService"}

SessionOp == sessRequest.op

\* C22 (as stated): for a profile with a password-protected mTLS key, after
\* every manager request and after cleanup no decrypted key file is left on
\* disk.
C22_NoKeyFileLeft ==
    (/\ SessionOp \in ManagerRequests \cup {"cleanup"}
     /\ Truthy(sessCred.mtls_key_password)) =>
        tempFiles = {}

\* two sessions were made on such a profile, cleanup has returned and a
\* decrypted key file is still there
C22_Witness ==
    /\ SessionOp = "cleanup"
    /\ sessRequest.kind = "ok"
    /\ Truthy(sessCred.mtls_key_password)
    /\ tempCreated = 2
    /\ Cardinality(tempFiles) = 1

\* a record one of whose parts is a signed assertion or a header set with an
\* Authorization value
ContainsSecret(rec) ==
    \E i \in 1..Len(rec.parts) :
        \/ rec.parts[i].kind = "jwt"
        \/ rec.parts[i].kind = "headers" /\ AuthorizationOf(rec.parts[i].value) # <<>>

SecretFields ==
    {"password", "zenapikey", "client_secret", "pkjwt_key_password", "mtls_key_password"}

\* the same profile with other secrets, and the same answer with another token
OtherSecrets(c) ==
    [a \in DOMAIN c |-> IF a \in SecretFields /\ Truthy(c[a]) THEN c[a] \o "2" ELSE c[a]]
OtherToken(env) == [env EXCEPT !.token = @ + 1]

\* the records the negotiator logs in the call a manager operation made
LogOfCall(call, c, env, temp, t) ==
    IF call = "get_auth" THEN AuthLog(c, env, t)
    ELSE IF call = "get_session" THEN get_session(c, env, temp, 0, t).log
    ELSE <<>>

\* C23 (as stated): no record logged by get_auth or get_session holds a
\* signed assertion or an Authorization value, and the same call with other
\* secret values logs the same records.
C23_SecretsNeverLogged ==
    (SessionOp # "none") =>
        /\ \A i \in 1..Len(sessLog) : ~ContainsSecret(sessLog[i])
        /\ LogOfCall(sessRequest.call, OtherSecrets(sessCred), OtherToken(sessRequest.env),
                     sessRequest.temp, sessRequest.at) = sessLog

\* get_session returned a session and a debug record holds a secret
C23_Witness ==
    /\ SessionOp \in ManagerRequests
    /\ sessRequest.session
    /\ \E i \in 1..Len(sessLog) : sessLog[i].level = "debug" /\ ContainsSecret(sessLog[i])

\* the age of the token a request carried
TokenAge(req) == req.at - req.authorization[2]

\* C30 (as stated): on an OAuth profile every request the manager sends
\* carries the token of the session made for that request, and no token
\* older than its validity.
C30_NoStaleToken ==
    (/\ SessionOp \in ManagerRequests
     /\ OAuthProfile(sessCred)
     /\ sessRequest.sent) =>
        /\ sessRequest.authorization = sessRequest.session_authorization
        /\ TokenAge(sessRequest) <= TokenValidity

\* a catalog request was sent with a token older than its validity while the
\* session made for it holds a fresh one
C30_Witness ==
    /\ SessionOp = "fetch_rulesets"
    /\ OAuthProfile(sessCred)
    /\ sessRequest.sent
    /\ TokenAge(sessRequest) > TokenValidity
    /\ sessRequest.session_authorization = <<"Bearer", sessRequest.at>>

====
